---- MODULE Spec2Model ----
(***************************************************************************)
(* Model of the ACP agent (romeosd/acp): the PDF pipeline                  *)
(* (src/src/pdf_processor/processor.py), the Watsonx gateway               *)
(* (src/src/watsonx/client.py), the agent's request and upload handlers    *)
(* (src/src/agent/acp_agent.py) and the MCP server                         *)
(* (src/src/mcp/server.py).                                                *)
(*                                                                         *)
(* A Python str is a sequence of one-character strings; a message built    *)
(* with an f-string is the concatenation of its parts.                     *)
(***************************************************************************)
EXTENDS Integers, Sequences, FiniteSets, TLC

VARIABLES
    \* chunker run (PDFProcessor._create_chunks)
    text, max_size, final_chunks, chunk_pc,
    \* pipeline run (PDFProcessor.process_document)
    file_path, fs, pdf_result, extract_result, proc_pc,
    \* gateway call (WatsonxClient)
    gen_call, remote_reply, gen_out, gen_pc,
    \* the agent (ACPAgent): its counters, its task map and the state of
    \* each call of _handle_acp_request
    total_requests, successful_requests, failed_requests, active_tasks,
    handlers,
    \* the MCP server (MCPServer): the state of one /mcp/query call
    mcp,
    \* the upload route of the agent: the files of the temporary directory
    \* and the state of each call of _handle_file_upload
    temp_dir, uploads

chunkVars == <<text, max_size, final_chunks, chunk_pc>>

procVars == <<file_path, fs, pdf_result, extract_result, proc_pc>>

genVars == <<gen_call, remote_reply, gen_out, gen_pc>>

counterVars == <<total_requests, successful_requests, failed_requests>>

agentVars == <<total_requests, successful_requests, failed_requests,
               active_tasks, handlers>>

vars == <<text, max_size, final_chunks, chunk_pc,
          file_path, fs, pdf_result, extract_result, proc_pc,
          gen_call, remote_reply, gen_out, gen_pc,
          total_requests, successful_requests, failed_requests, active_tasks,
          handlers, mcp, temp_dir, uploads>>

mcpVars == <<mcp>>

uploadVars == <<temp_dir, uploads>>

(***************************************************************************)
(* Bounds                                                                  *)
(***************************************************************************)
MaxTextLen == 6
MaxChunkSize == 4
MaxPages == 2
MaxSummaryLength == 9
MaxRequests == 2

(***************************************************************************)
(* Python string primitives                                                *)
(***************************************************************************)
Alphabet == {"a", ".", " ", "\n"}

Whitespace == {" ", "\n"}

Texts == UNION {[1..n -> Alphabet] : n \in 0..MaxTextLen}

\* s[i:] with a 1-based index
Drop(s, i) == IF i > Len(s) THEN <<>> ELSE SubSeq(s, i, Len(s))

\* s[:i-1] with a 1-based index
Take(s, i) == IF i <= 1 THEN <<>> ELSE SubSeq(s, 1, i - 1)

\* does sep occur in s at position i
OccursAt(s, sep, i) ==
    /\ i + Len(sep) - 1 <= Len(s)
    /\ \A k \in 1..Len(sep) : s[i + k - 1] = sep[k]

\* str.find, 1-based, 0 when absent
Find(s, sep) ==
    IF \E i \in 1..Len(s) : OccursAt(s, sep, i)
    THEN CHOOSE i \in 1..Len(s) :
            /\ OccursAt(s, sep, i)
            /\ \A j \in 1..(i - 1) : ~OccursAt(s, sep, j)
    ELSE 0

\* str.split(sep): left to right, non-overlapping, keeps empty pieces
RECURSIVE split(_, _)
split(s, sep) ==
    LET i == Find(s, sep) IN
    IF i = 0 THEN <<s>>
    ELSE <<Take(s, i)>> \o split(Drop(s, i + Len(sep)), sep)

RECURSIVE lstrip(_)
lstrip(s) ==
    IF s # <<>> /\ Head(s) \in Whitespace THEN lstrip(Tail(s)) ELSE s

RECURSIVE rstrip(_)
rstrip(s) ==
    IF s # <<>> /\ s[Len(s)] \in Whitespace
    THEN rstrip(SubSeq(s, 1, Len(s) - 1)) ELSE s

\* str.strip()
strip(s) == rstrip(lstrip(s))

ParagraphSep == <<"\n", "\n">>

SentenceSep == <<".", " ">>

(***************************************************************************)
(* PDFProcessor._create_chunks                                             *)
(***************************************************************************)
\* the paragraph loop and the flush of the remaining chunk (lines 170-181)
RECURSIVE ParagraphLoop(_, _, _, _)
ParagraphLoop(paragraphs, current_chunk, chunks, chunk_size) ==
    IF paragraphs = <<>>
    THEN IF current_chunk # <<>>
         THEN Append(chunks, strip(current_chunk))
         ELSE chunks
    ELSE LET paragraph == Head(paragraphs) IN
         IF Len(current_chunk) + Len(paragraph) <= chunk_size
         THEN ParagraphLoop(Tail(paragraphs),
                            current_chunk \o paragraph \o ParagraphSep,
                            chunks, chunk_size)
         ELSE ParagraphLoop(Tail(paragraphs),
                            paragraph \o ParagraphSep,
                            IF current_chunk # <<>>
                            THEN Append(chunks, strip(current_chunk))
                            ELSE chunks,
                            chunk_size)

\* the sentence loop and its flush for one oversized chunk (lines 190-201)
RECURSIVE SentenceLoop(_, _, _, _)
SentenceLoop(sentences, current_sentence_chunk, out, chunk_size) ==
    IF sentences = <<>>
    THEN IF current_sentence_chunk # <<>>
         THEN Append(out, strip(current_sentence_chunk))
         ELSE out
    ELSE LET sentence == Head(sentences) IN
         IF Len(current_sentence_chunk) + Len(sentence) <= chunk_size
         THEN SentenceLoop(Tail(sentences),
                           current_sentence_chunk \o sentence \o SentenceSep,
                           out, chunk_size)
         ELSE SentenceLoop(Tail(sentences),
                           sentence \o SentenceSep,
                           IF current_sentence_chunk # <<>>
                           THEN Append(out, strip(current_sentence_chunk))
                           ELSE out,
                           chunk_size)

\* the loop over the paragraph-level chunks (lines 184-201)
RECURSIVE FinalLoop(_, _, _)
FinalLoop(chunks, out, chunk_size) ==
    IF chunks = <<>> THEN out
    ELSE LET chunk == Head(chunks) IN
         IF Len(chunk) <= chunk_size
         THEN FinalLoop(Tail(chunks), Append(out, chunk), chunk_size)
         ELSE FinalLoop(Tail(chunks),
                        SentenceLoop(split(chunk, SentenceSep), <<>>, out,
                                     chunk_size),
                        chunk_size)

_create_chunks(t, chunk_size) ==
    IF t = <<>> THEN <<>>
    ELSE FinalLoop(ParagraphLoop(split(t, ParagraphSep), <<>>, <<>>,
                                 chunk_size),
                   <<>>, chunk_size)

(***************************************************************************)
(* Python values: Optional, exceptions, try/except, dict.get               *)
(***************************************************************************)
\* Optional[T]: None is the empty sequence, a value v is <<v>>
None == <<>>

Some(v) == <<v>>

\* the classes that derive from Exception among those the program meets
RequestErrorClasses == {"TimeoutException", "ConnectError"}

ExceptionClasses ==
    {"TypeError", "ValueError", "OSError", "AssertionError", "PdfReadError",
     "JSONDecodeError", "AttributeError"} \cup RequestErrorClasses

\* the classes that derive from BaseException
BaseExceptionClasses == ExceptionClasses

\* isinstance(e, cls) for the two classes the except clauses name
IsInstance(e, cls) ==
    CASE cls = "Exception" -> e.class \in ExceptionClasses
      [] cls = "RequestError" -> e.class \in RequestErrorClasses
      [] OTHER -> e.class = cls

Exc(cls, msg) == [class |-> cls, msg |-> msg]

\* str(e): the exception's message, empty for an exception without arguments
str(e) == e.msg

\* the outcome of a call: a returned value or a raised exception
Ok(v) == [ok |-> TRUE, val |-> v]

Err(e) == [ok |-> FALSE, exc |-> e]

\* dict.get(key, default) on a function with string keys
DictGet(d, key, default) == IF key \in DOMAIN d THEN d[key] ELSE default

(***************************************************************************)
(* Configuration (src/src/config.py)                                       *)
(***************************************************************************)
max_file_size == 10485760

max_pages == 100

chunk_size_config == 1000

(***************************************************************************)
(* Paths: directory, stem and extension                                    *)
(***************************************************************************)
Paths ==
    {<<"/docs/", "report", ".pdf">>,
     <<"/docs/", "SCAN", ".PDF">>,
     <<"/docs/", "notes", ".txt">>}

\* str.lower() on one fragment of a path
lower(frag) ==
    CASE frag = ".PDF" -> ".pdf"
      [] frag = "SCAN" -> "scan"
      [] OTHER -> frag

\* path.lower().endswith('.pdf')
EndsWithPdf(path) == lower(path[Len(path)]) = ".pdf"

\* os.path.basename
basename(path) == SubSeq(path, 2, Len(path))

(***************************************************************************)
(* What the file system and the two PDF libraries answer for one path      *)
(***************************************************************************)
\* a page's text: None or empty, blank, or real text; the two libraries read
\* the same file with different code, so their texts are told apart
PrimaryPageTexts == {<<>>, <<" ">>, <<"p">>}

SecondaryPageTexts == {<<>>, <<" ">>, <<"s">>}

PageLists(T) == UNION {[1..n -> T] : n \in 0..MaxPages}

PrimaryOutcomes ==
    [raises : {FALSE}, pages : PageLists(PrimaryPageTexts)]
        \cup {[raises |-> TRUE, exc |-> Exc("AssertionError", <<>>)]}

SecondaryOutcomes ==
    [raises : {FALSE}, pages : PageLists(SecondaryPageTexts)]
        \cup {[raises |-> TRUE,
               exc |-> Exc("PdfReadError", <<"EOF marker not found">>)],
              [raises |-> TRUE, exc |-> Exc("AssertionError", <<>>)]}

\* the reader of _extract_metadata: it cannot be built (raises, no page
\* count), it counts the pages and raises on the document information
\* (raises, with a page count), or it answers both
MetadataOutcomes ==
    {[raises |-> TRUE],
     [raises |-> TRUE, page_count |-> 2],
     [raises |-> FALSE, page_count |-> 2, info |-> None],
     [raises |-> FALSE, page_count |-> 2, info |-> Some("Report")]}

FileSizes == {0, max_file_size, max_file_size + 1}

FileStates ==
    [exists : BOOLEAN, file_size : FileSizes, openable : BOOLEAN,
     primary : PrimaryOutcomes, secondary : SecondaryOutcomes,
     metadata : MetadataOutcomes]

(***************************************************************************)
(* PDFProcessor._extract_text, _extract_metadata, process_document,        *)
(* validate_file                                                           *)
(***************************************************************************)
\* sep.join(parts)
RECURSIVE join(_, _)
join(sep, parts) ==
    IF parts = <<>> THEN <<>>
    ELSE IF Len(parts) = 1 THEN parts[1]
    ELSE parts[1] \o sep \o join(sep, Tail(parts))

\* the loop over the first n pages: a page with a falsy text is skipped
PagesText(page_texts, n) ==
    LET limited == SubSeq(page_texts, 1,
                          IF Len(page_texts) < n THEN Len(page_texts) ELSE n)
        IsText(t) == t # <<>>
    IN join(<<"\n">>, SelectSeq(limited, IsText))

\* an extractor that swallows the secondary method's failure as it does the
\* primary method's
_extract_text_SwallowSecondary(f) ==
    LET primary_text == IF f.primary.raises THEN <<>>
                        ELSE PagesText(f.primary.pages, max_pages)
    IN IF ~f.primary.raises /\ strip(primary_text) # <<>>
       THEN [ok |-> TRUE, val |-> primary_text, calls |-> <<"pdfplumber">>]
       ELSE [ok |-> TRUE,
             val |-> IF f.secondary.raises THEN <<>>
                     ELSE PagesText(f.secondary.pages, max_pages),
             calls |-> <<"pdfplumber", "PyPDF2">>]

\* an extractor that returns the primary method's text even when it is blank
_extract_text_KeepsBlankPrimary(f) ==
    IF ~f.primary.raises
    THEN [ok |-> TRUE, val |-> PagesText(f.primary.pages, max_pages),
          calls |-> <<"pdfplumber">>]
    ELSE IF f.secondary.raises
    THEN [ok |-> FALSE, exc |-> f.secondary.exc,
          calls |-> <<"pdfplumber", "PyPDF2">>]
    ELSE [ok |-> TRUE, val |-> PagesText(f.secondary.pages, max_pages),
          calls |-> <<"pdfplumber", "PyPDF2">>]

\* the outcome of _extract_text, with the libraries it called, in order
_extract_text(f) ==
    LET primary_text == IF f.primary.raises THEN <<>>
                        ELSE PagesText(f.primary.pages, max_pages)
    IN IF ~f.primary.raises /\ strip(primary_text) # <<>>
       THEN [ok |-> TRUE, val |-> primary_text, calls |-> <<"pdfplumber">>]
       ELSE IF f.secondary.raises
       THEN [ok |-> FALSE, exc |-> f.secondary.exc,
             calls |-> <<"pdfplumber", "PyPDF2">>]
       ELSE [ok |-> TRUE, val |-> PagesText(f.secondary.pages, max_pages),
             calls |-> <<"pdfplumber", "PyPDF2">>]

\* a metadata reader that drops what it gathered when it raises
_extract_metadata_DropsAll(f) ==
    IF f.metadata.raises THEN [k \in {} |-> None]
    ELSE IF f.metadata.info = None
    THEN [k \in {"page_count"} |-> f.metadata.page_count]
    ELSE [k \in {"page_count", "title"} |->
            IF k = "page_count" THEN f.metadata.page_count
            ELSE f.metadata.info[1]]

\* the metadata dict (lines 132-156): what was stored before the reader
\* raised, the exception being logged and swallowed
_extract_metadata(f) ==
    IF f.metadata.raises
    THEN IF "page_count" \in DOMAIN f.metadata
         THEN [k \in {"page_count"} |-> f.metadata.page_count]
         ELSE [k \in {} |-> None]
    ELSE IF f.metadata.info = None
    THEN [k \in {"page_count"} |-> f.metadata.page_count]
    ELSE [k \in {"page_count", "title"} |->
            IF k = "page_count" THEN f.metadata.page_count
            ELSE f.metadata.info[1]]

\* process_document returned a ProcessingResult (no exception escaped it)
Returned(out) == "result" \in DOMAIN out

\* a failure result that keeps an empty chunk list
FailureResult_WithChunks(error) ==
    [success |-> FALSE, document |-> None, error |-> Some(error),
     chunks |-> Some(<<>>)]

\* ProcessingResult(success=False, error=...)
FailureResult(error) ==
    [success |-> FALSE, document |-> None, error |-> Some(error),
     chunks |-> None]

\* a pipeline that checks the size before the existence
process_document_SizeFirst(path, f) ==
    IF f.file_size > max_file_size
    THEN [result |-> FailureResult(<<"File too large: ",
                                     ToString(f.file_size), " bytes">>),
          calls |-> <<"getsize">>]
    ELSE IF ~f.exists
    THEN [result |-> FailureResult(<<"File not found: ">> \o path),
          calls |-> <<"getsize", "exists">>]
    ELSE LET ex == _extract_text(f)
             calls == <<"exists", "getsize">> \o ex.calls
         IN IF ~ex.ok
            THEN \* except Exception as e: error=str(e)
                 IF IsInstance(ex.exc, "Exception")
                 THEN [result |-> FailureResult(str(ex.exc)), calls |-> calls]
                 ELSE [escaped |-> ex.exc, calls |-> calls]
            ELSE IF strip(ex.val) = <<>>
            THEN [result |-> FailureResult(<<"No text content found in PDF">>),
                  calls |-> calls]
            ELSE LET metadata == _extract_metadata(f)
                     document ==
                         [file_path |-> path, file_name |-> basename(path),
                          file_size |-> f.file_size,
                          page_count |-> DictGet(metadata, "page_count", 0),
                          text_content |-> ex.val, metadata |-> metadata]
                 IN [result |-> [success |-> TRUE,
                                 document |-> Some(document),
                                 error |-> None,
                                 chunks |-> Some(_create_chunks(ex.val,
                                                    chunk_size_config))],
                     calls |-> calls \o <<"metadata", "_create_chunks">>]

\* the result of process_document and the checks and calls it made, in order
process_document(path, f) ==
    IF ~f.exists
    THEN [result |-> FailureResult(<<"File not found: ">> \o path),
          calls |-> <<"exists">>]
    ELSE IF f.file_size > max_file_size
    THEN [result |-> FailureResult(<<"File too large: ",
                                     ToString(f.file_size), " bytes">>),
          calls |-> <<"exists", "getsize">>]
    ELSE LET ex == _extract_text(f)
             calls == <<"exists", "getsize">> \o ex.calls
         IN IF ~ex.ok
            THEN \* except Exception as e: error=str(e)
                 IF IsInstance(ex.exc, "Exception")
                 THEN [result |-> FailureResult(str(ex.exc)), calls |-> calls]
                 ELSE [escaped |-> ex.exc, calls |-> calls]
            ELSE IF strip(ex.val) = <<>>
            THEN [result |-> FailureResult(<<"No text content found in PDF">>),
                  calls |-> calls]
            ELSE LET metadata == _extract_metadata(f)
                     document ==
                         [file_path |-> path, file_name |-> basename(path),
                          file_size |-> f.file_size,
                          page_count |-> DictGet(metadata, "page_count", 0),
                          text_content |-> ex.val, metadata |-> metadata]
                 IN [result |-> [success |-> TRUE,
                                 document |-> Some(document),
                                 error |-> None,
                                 chunks |-> Some(_create_chunks(ex.val,
                                                    chunk_size_config))],
                     calls |-> calls \o <<"metadata", "_create_chunks">>]

\* a pre-flight check that looks at the existence of the file only
validate_file_ExistsOnly(path, f) == f.exists

validate_file(path, f) ==
    IF ~f.exists THEN FALSE
    ELSE IF ~EndsWithPdf(path) THEN FALSE
    ELSE IF f.file_size > max_file_size THEN FALSE
    ELSE f.openable

(***************************************************************************)
(* Watsonx gateway (src/src/watsonx/client.py, models.py)                  *)
(* temperature and top_p are counted in tenths: 3 is 0.3, 10 is 1.0        *)
(***************************************************************************)
default_model == "ibm-granite/granite-13b-chat-v2"

default_max_tokens == 2048

default_temperature == 7

default_top_p == 10

\* WatsonxRequest(prompt=..., max_tokens=..., temperature=...): the other
\* fields take the defaults of the model class
WatsonxRequest(prompt, max_tokens, temperature) ==
    [prompt |-> prompt, model |-> None, max_tokens |-> Some(max_tokens),
     temperature |-> Some(temperature), top_p |-> Some(default_top_p),
     stop_sequences |-> None, stream |-> Some(FALSE)]

\* WatsonxError(error=..., code=..., details=...): a pydantic BaseModel,
\* not an exception class
WatsonxError(error, code, details) ==
    [class |-> "WatsonxError", error |-> error, code |-> code,
     details |-> details]

\* raise obj: an object whose class does not derive from BaseException cannot
\* be raised, the raise statement raises TypeError in its place
Raise(obj) ==
    IF obj.class \in BaseExceptionClasses THEN obj
    ELSE Exc("TypeError", <<"exceptions must derive from BaseException">>)

\* a or b on an Optional number: None and 0 are falsy
OrNum(a, b) == IF a # None /\ a[1] # 0 THEN a[1] ELSE b

\* a or b on an Optional string: None and "" are falsy
OrStr(a, b) == IF a # None /\ a[1] # "" THEN a[1] ELSE b

\* a or b on an Optional bool
OrBool(a, b) == IF a # None /\ a[1] THEN a[1] ELSE b

\* the payload of generate_text (lines 45-57)
Payload(request) ==
    [model_id |-> OrStr(request.model, default_model),
     input |-> request.prompt,
     parameters |->
        [max_new_tokens |-> OrNum(request.max_tokens, default_max_tokens),
         temperature |-> OrNum(request.temperature, default_temperature),
         top_p |-> OrNum(request.top_p, default_top_p),
         stream |-> OrBool(request.stream, FALSE),
         stop_sequences |->
            IF request.stop_sequences # None /\ request.stop_sequences[1] # <<>>
            THEN request.stop_sequences ELSE None]]

\* what the remote endpoint can answer to one post
GeneratedText == <<"o", "k">>

ResponseBodies ==
    {[results |-> <<[generated_text |-> GeneratedText,
                     finish_reason |-> "stop"]>>],
     [results |-> <<[generated_text |-> GeneratedText,
                     finish_reason |-> "stop"]>>,
      usage |-> [prompt_tokens |-> 3, completion_tokens |-> 2,
                 total_tokens |-> 5]],
     [results |-> <<>>],
     [model_id |-> default_model]}

ErrorBodies == {[errors |-> <<"token_quota_reached">>]}

Remotes ==
    \* a reply with status 200 and a JSON body
    {[kind |-> "response", status_code |-> 200, content |-> TRUE,
      json |-> Ok(d)] : d \in ResponseBodies}
    \* a reply with status 200 whose body is not JSON
    \cup {[kind |-> "response", status_code |-> 200, content |-> TRUE,
           json |-> Err(Exc("JSONDecodeError", <<"Expecting value">>))]}
    \* a reply with a non-success status, with an error payload
    \cup {[kind |-> "response", status_code |-> c, content |-> TRUE,
           json |-> Ok(d)] : c \in {401, 500}, d \in ErrorBodies}
    \* a reply with a non-success status and no body
    \cup {[kind |-> "response", status_code |-> 500, content |-> FALSE,
           json |-> Err(Exc("JSONDecodeError", <<"Expecting value">>))]}
    \* the transport fails: the 30 s timeout expires or the connection fails
    \cup {[kind |-> "transport", exc |-> Exc("TimeoutException", <<>>)],
          [kind |-> "transport",
           exc |-> Exc("ConnectError", <<"All connection attempts failed">>)]}

\* _parse_response (lines 90-119)
_parse_response(data, model) ==
    LET results == DictGet(data, "results", <<>>)
        body ==
            IF results = <<>>
            THEN Err(Raise(WatsonxError(<<"No results in response">>, None, None)))
            ELSE LET result == results[1] IN
                 Ok([text |-> DictGet(result, "generated_text", <<>>),
                     model |-> model,
                     usage |->
                        IF "usage" \in DOMAIN data
                        THEN Some([prompt_tokens |->
                                       DictGet(data["usage"], "prompt_tokens", 0),
                                   completion_tokens |->
                                       DictGet(data["usage"], "completion_tokens", 0),
                                   total_tokens |->
                                       DictGet(data["usage"], "total_tokens", 0)])
                        ELSE None,
                     finish_reason |->
                        IF "finish_reason" \in DOMAIN result
                        THEN Some(result["finish_reason"]) ELSE None])
    IN IF body.ok THEN body
       ELSE IF IsInstance(body.exc, "Exception")
       THEN Err(Raise(WatsonxError(<<"Error parsing response: ">> \o str(body.exc),
                                   None, None)))
       ELSE body

\* the try block of generate_text once the post has been answered
\* (lines 64-81)
AfterPost(request, remote) ==
    IF remote.kind = "transport" THEN Err(remote.exc)
    ELSE IF remote.status_code = 200
    THEN IF remote.json.ok
         THEN _parse_response(remote.json.val,
                              OrStr(request.model, default_model))
         ELSE Err(remote.json.exc)
    ELSE IF remote.content /\ ~remote.json.ok THEN Err(remote.json.exc)
    ELSE Err(Raise(WatsonxError(
                <<"Watsonx.ai API error: ", ToString(remote.status_code)>>,
                Some(ToString(remote.status_code)),
                Some(IF remote.content THEN remote.json.val
                     ELSE [k \in {} |-> None]))))

\* generate_text (lines 41-88): the outcome, the payload posted and the
\* number of posts made
generate_text(request, remote) ==
    LET body == AfterPost(request, remote)
        outcome ==
            IF body.ok THEN body
            ELSE IF IsInstance(body.exc, "RequestError")
            THEN Err(Raise(WatsonxError(<<"Network error: ">> \o str(body.exc),
                                        None, None)))
            ELSE IF IsInstance(body.exc, "Exception")
            THEN Err(Raise(WatsonxError(<<"Unexpected error: ">> \o str(body.exc),
                                        None, None)))
            ELSE body
    IN [outcome |-> outcome, payload |-> Payload(request), posts |-> 1]

\* the request built by summarize_text (lines 121-133)
SummarizeRequest(t, max_length) ==
    WatsonxRequest(
        <<"Please provide a concise summary of the following text in approximately ",
          ToString(max_length), " characters:\n\n">> \o t \o <<"\n\nSummary:">>,
        max_length \div 4, 3)

\* the request built by answer_question (lines 138-153); question is an
\* Optional string, a None is formatted as "None"
AnswerRequest(context, question) ==
    WatsonxRequest(
        <<"Based on the following context, please answer the question:\n\nContext:\n">>
            \o context \o <<"\n\nQuestion: ">>
            \o (IF question = None THEN <<"None">> ELSE question[1])
            \o <<"\n\nAnswer:">>,
        1000, 5)

\* a key-points request that leaves max_tokens and temperature to the
\* defaults of the model class
KeyPointsRequest_Defaults(t) ==
    WatsonxRequest(
        <<"Please extract the key points from the following text:\n\n">>
            \o t \o <<"\n\nKey Points:\n1.">>,
        default_max_tokens, default_temperature)

\* the request built by extract_key_points (lines 158-171)
KeyPointsRequest(t) ==
    WatsonxRequest(
        <<"Please extract the key points from the following text:\n\n">>
            \o t \o <<"\n\nKey Points:\n1.">>,
        800, 4)

\* the three derived operations return response.text or raise
TextOf(g) ==
    [outcome |-> IF g.outcome.ok THEN Ok(g.outcome.val.text) ELSE g.outcome,
     payload |-> g.payload, posts |-> g.posts]

summarize_text(t, max_length, remote) ==
    TextOf(generate_text(SummarizeRequest(t, max_length), remote))

answer_question(context, question, remote) ==
    TextOf(generate_text(AnswerRequest(context, question), remote))

extract_key_points(t, remote) ==
    TextOf(generate_text(KeyPointsRequest(t), remote))

(***************************************************************************)
(* Task dispatcher: ACPAgent._perform_task (src/src/agent/acp_agent.py)    *)
(***************************************************************************)
\* a parameters value is None or a dict; an empty dict is falsy
Truthy(parameters) == parameters # None /\ DOMAIN parameters[1] # {}

DefaultQuestion == <<"What is this document about?">>

AnalysisPrompt(t) ==
    <<"Please provide a comprehensive analysis of the following document:\n\nDocument: ">>
        \o t
        \o <<"\n\nPlease include:\n1. Main topics and themes\n2. Key findings or conclusions\n3. Document structure and organization\n4. Any notable insights or observations\n\nAnalysis:">>

\* max_length of a summarize task (line 188)
MaxLengthOf(parameters) ==
    IF Truthy(parameters) THEN DictGet(parameters[1], "max_length", 500)
    ELSE 500

\* question of a question_answer task (line 204): an Optional string,
\* dict.get without default gives None for a missing key
QuestionOf(parameters) ==
    IF Truthy(parameters)
    THEN IF "question" \in DOMAIN parameters[1]
         THEN Some(parameters[1]["question"]) ELSE None
    ELSE Some(DefaultQuestion)

\* extraction_type of an extract task (line 219)
ExtractionTypeOf(parameters) ==
    IF Truthy(parameters)
    THEN DictGet(parameters[1], "extraction_type", "key_points")
    ELSE "key_points"

\* a dispatcher that extracts key points whatever the extraction type
GatewayCallOf_AnyExtraction(task, document, parameters) ==
    CASE task = "summarize" ->
            Ok([op |-> "summarize_text",
                request |-> SummarizeRequest(document.text_content,
                                             MaxLengthOf(parameters))])
      [] task = "question_answer" ->
            Ok([op |-> "answer_question",
                request |-> AnswerRequest(document.text_content,
                                          QuestionOf(parameters))])
      [] task = "extract" ->
            IF TRUE
            THEN Ok([op |-> "extract_key_points",
                     request |-> KeyPointsRequest(document.text_content)])
            ELSE Err(Exc("ValueError",
                         <<"Unsupported extraction type: ",
                           ExtractionTypeOf(parameters)>>))
      [] task = "analyze" ->
            Ok([op |-> "generate_text",
                request |-> WatsonxRequest(AnalysisPrompt(document.text_content),
                                           1500, 3)])
      [] OTHER ->
            Err(Exc("ValueError", <<"Unsupported task type: ", task>>))

\* _perform_task up to its first await: the gateway operation it calls with
\* the request that operation builds, or the exception it raises before
GatewayCallOf(task, document, parameters) ==
    CASE task = "summarize" ->
            Ok([op |-> "summarize_text",
                request |-> SummarizeRequest(document.text_content,
                                             MaxLengthOf(parameters))])
      [] task = "question_answer" ->
            Ok([op |-> "answer_question",
                request |-> AnswerRequest(document.text_content,
                                          QuestionOf(parameters))])
      [] task = "extract" ->
            IF ExtractionTypeOf(parameters) = "key_points"
            THEN Ok([op |-> "extract_key_points",
                     request |-> KeyPointsRequest(document.text_content)])
            ELSE Err(Exc("ValueError",
                         <<"Unsupported extraction type: ",
                           ExtractionTypeOf(parameters)>>))
      [] task = "analyze" ->
            Ok([op |-> "generate_text",
                request |-> WatsonxRequest(AnalysisPrompt(document.text_content),
                                           1500, 3)])
      [] OTHER ->
            Err(Exc("ValueError", <<"Unsupported task type: ", task>>))

\* the result mapping built from the text the gateway returned
TaskResult(task, document, parameters, generated) ==
    CASE task = "summarize" ->
            [summary |-> generated,
             document_info |->
                [file_name |-> document.file_name,
                 page_count |-> document.page_count,
                 file_size |-> document.file_size,
                 original_length |-> Len(document.text_content),
                 summary_length |-> Len(generated)]]
      [] task = "question_answer" ->
            [answer |-> generated,
             question |-> QuestionOf(parameters),
             document_info |->
                [file_name |-> document.file_name,
                 page_count |-> document.page_count]]
      [] task = "extract" ->
            [key_points |-> generated,
             extraction_type |-> ExtractionTypeOf(parameters),
             document_info |->
                [file_name |-> document.file_name,
                 page_count |-> document.page_count]]
      [] OTHER ->
            [analysis |-> generated,
             document_info |->
                [file_name |-> document.file_name,
                 page_count |-> document.page_count,
                 file_size |-> document.file_size]]

\* a dispatcher that repeats a failed gateway call once
_perform_task_RetryOnce(task, pdf, parameters, remote) ==
    LET document == pdf.document[1]
        call == GatewayCallOf(task, document, parameters)
    IN IF ~call.ok THEN [outcome |-> call, posted |-> <<>>]
       ELSE LET g == generate_text(call.val.request, remote) IN
            IF ~g.outcome.ok
            THEN [outcome |-> g.outcome, posted |-> <<g.payload, g.payload>>]
            ELSE [outcome |-> Ok(TaskResult(task, document, parameters,
                                            g.outcome.val.text)),
                  posted |-> <<g.payload>>]

\* _perform_task (lines 180-268): its outcome and the payloads it posted
_perform_task(task, pdf, parameters, remote) ==
    LET document == pdf.document[1]
        call == GatewayCallOf(task, document, parameters)
    IN IF ~call.ok THEN [outcome |-> call, posted |-> <<>>]
       ELSE LET g == generate_text(call.val.request, remote) IN
            IF ~g.outcome.ok
            THEN [outcome |-> g.outcome, posted |-> <<g.payload>>]
            ELSE [outcome |-> Ok(TaskResult(task, document, parameters,
                                            g.outcome.val.text)),
                  posted |-> <<g.payload>>]

(***************************************************************************)
(* ACPAgent._handle_acp_request (lines 89-132)                             *)
(***************************************************************************)
\* f"...{pdf_result.error}": an Optional message formatted into a message
FormatOptional(error) == IF error = None THEN <<"None">> ELSE error[1]

\* the try block up to the call of _perform_task: the ProcessingResult to
\* work on, or the exception raised
Preflight(request, f) ==
    IF ~validate_file(request.document_path, f)
    THEN Err(Exc("ValueError",
                 <<"Invalid or unsupported file: ">> \o request.document_path))
    ELSE LET p == process_document(request.document_path, f) IN
         IF ~Returned(p) THEN Err(p.escaped)
         ELSE IF ~p.result.success
         THEN Err(Exc("ValueError",
                      <<"PDF processing failed: ">>
                          \o FormatOptional(p.result.error)))
         ELSE Ok(p.result)

\* the calls the handler makes, in their order, up to its first await
\* (lines 97-107): the check of the path, the pipeline, the dispatcher and
\* the post of the gateway
CallsBeforeAwait(request, f) ==
    <<"validate_file">> \o
    (IF ~validate_file(request.document_path, f) THEN <<>>
     ELSE <<"process_document">> \o
          (IF ~Preflight(request, f).ok THEN <<>>
           ELSE <<"_perform_task">> \o
                (IF GatewayCallOf(request.task,
                                  Preflight(request, f).val.document[1],
                                  request.parameters).ok
                 THEN <<"post">> ELSE <<>>)))

\* a handler whose except clause names ValueError only
HandlerCatches_ValueErrorOnly(e) == IsInstance(e, "ValueError")

\* the except clause of the handler (line 121)
HandlerCatches(e) == IsInstance(e, "Exception")

\* ACPResponse(request_id=..., success=True, result=...)
SuccessResponse(request, result) ==
    [request_id |-> request.request_id, success |-> TRUE,
     result |-> Some(result), error |-> None]

\* a failure response that also carries a result
FailureResponse_WithResult(request, e) ==
    [request_id |-> request.request_id, success |-> FALSE,
     result |-> Some([error |-> str(e)]), error |-> Some(str(e))]

\* ACPResponse(request_id=..., success=False, error=str(e))
FailureResponse(request, e) ==
    [request_id |-> request.request_id, success |-> FALSE,
     result |-> None, error |-> Some(str(e))]

(***************************************************************************)
(* MCP server: MCPServer (src/src/mcp/server.py)                           *)
(***************************************************************************)
\* MCPError(code=..., message=...).dict()
MCPError(code, message) == [code |-> code, message |-> message, data |-> None]

\* MCPResponse(id=..., result=..., error=...): result and error are Optional
MCPResponse(id, result, error) == [id |-> id, result |-> result, error |-> error]

\* the keys of self.handlers (_setup_handlers)
McpHandlers ==
    {"text/generate", "text/summarize", "text/answer_question",
     "text/extract_key_points"}

\* request.params or {}
ParamsOrEmpty(params) == IF params = None THEN [k \in {} |-> None] ELSE params[1]

\* params.get(key): None for a missing key
Get(params, key) == IF key \in DOMAIN params THEN Some(params[key]) ELSE None

\* not v, for an Optional string: None and "" are falsy
Not(v) == v = None \/ v[1] = <<>>

\* a handler up to its await of the gateway (lines 122-189): the request it
\* has the gateway post, or the ValueError of a missing parameter
McpCallOf(method, params) ==
    LET prompt == Get(params, "prompt")
        t == Get(params, "text")
        context == Get(params, "context")
        question == Get(params, "question")
    IN CASE method = "text/generate" ->
               IF Not(prompt)
               THEN Err(Exc("ValueError", <<"Prompt is required">>))
               ELSE Ok(WatsonxRequest(prompt[1],
                                      DictGet(params, "max_tokens", 2048),
                                      DictGet(params, "temperature", 7)))
         [] method = "text/summarize" ->
               IF Not(t)
               THEN Err(Exc("ValueError", <<"Text is required">>))
               ELSE Ok(SummarizeRequest(t[1], DictGet(params, "max_length", 500)))
         [] method = "text/answer_question" ->
               IF Not(context)
               THEN Err(Exc("ValueError", <<"Context is required">>))
               ELSE IF Not(question)
               THEN Err(Exc("ValueError", <<"Question is required">>))
               ELSE Ok(AnswerRequest(context[1], question))
         [] OTHER ->
               IF Not(t)
               THEN Err(Exc("ValueError", <<"Text is required">>))
               ELSE Ok(KeyPointsRequest(t[1]))

\* the dict a handler returns once the gateway has answered
McpResultOf(method, params, response) ==
    CASE method = "text/generate" ->
            [text |-> response.text, model |-> response.model,
             usage |-> response.usage, finish_reason |-> response.finish_reason]
      [] method = "text/summarize" ->
            [summary |-> response.text,
             original_length |-> Len(params["text"]),
             summary_length |-> Len(response.text)]
      [] method = "text/answer_question" ->
            [answer |-> response.text, question |-> params["question"],
             context_length |-> Len(params["context"])]
      [] OTHER ->
            [key_points |-> response.text,
             original_length |-> Len(params["text"])]

\* the reply to a method that is not a key of self.handlers (lines 94-101)
UnsupportedMethod(request) ==
    MCPResponse(request.id, None,
                Some(MCPError(400, <<"Unsupported method: ", request.method>>)))

\* an except clause that reports the exception in the result field
McpErrorReply_AsResult(request, e) ==
    MCPResponse(request.id, Some([error |-> str(e)]), None)

\* the except clause of _process_request (lines 112-120) and the one of
\* handle_mcp_query (lines 52-60): the same reply
McpErrorReply(request, e) ==
    MCPResponse(request.id, None, Some(MCPError(500, str(e))))

\* the return statement of a handler: the dict built from the gateway's
\* answer, or the exception the gateway raised
HandlerReturn(method, params, g) ==
    [outcome |-> IF g.outcome.ok
                 THEN Ok(McpResultOf(method, params, g.outcome.val))
                 ELSE g.outcome,
     posted |-> <<g.payload>>]

\* a handler's call (lines 104-105): what it returns or raises, and the
\* payloads posted
HandlerCall(method, params, call, remote) ==
    IF ~call.ok THEN [outcome |-> call, posted |-> <<>>]
    ELSE HandlerReturn(method, params, generate_text(call.val, remote))

McpHandler(request, remote) ==
    HandlerCall(request.method, ParamsOrEmpty(request.params),
                McpCallOf(request.method, ParamsOrEmpty(request.params)),
                remote)

\* the try block of _process_request and its except clause (lines 103-120)
\* around the outcome h of the handler
ProcessOutcome(request, h) ==
    [outcome |->
        IF h.outcome.ok
        THEN Ok(MCPResponse(request.id, Some(h.outcome.val), None))
        ELSE IF IsInstance(h.outcome.exc, "Exception")
        THEN Ok(McpErrorReply(request, h.outcome.exc))
        ELSE h.outcome,
     posted |-> h.posted]

\* _process_request (lines 90-120): the response it returns, or the
\* exception its except clause does not catch, and the payloads posted
_process_request(request, remote) ==
    IF request.method \notin McpHandlers
    THEN [outcome |-> Ok(UnsupportedMethod(request)), posted |-> <<>>]
    ELSE ProcessOutcome(request, McpHandler(request, remote))

\* the try block of handle_mcp_query and its except clause (lines 49-60)
\* around the outcome p of _process_request
QueryOutcome(request, p) ==
    [outcome |->
        IF p.outcome.ok THEN p.outcome
        ELSE IF IsInstance(p.outcome.exc, "Exception")
        THEN Ok(McpErrorReply(request, p.outcome.exc))
        ELSE p.outcome,
     posted |-> p.posted]

\* handle_mcp_query (lines 46-60): the response of the route, or the
\* exception that leaves it
handle_mcp_query(request, remote) ==
    QueryOutcome(request, _process_request(request, remote))

(***************************************************************************)
(* Chunker runs: every text over the alphabet, every chunk size            *)
(***************************************************************************)
ChunkIdle ==
    /\ text = <<>>
    /\ max_size = 1
    /\ final_chunks = <<>>
    /\ chunk_pc = "idle"

ProcIdle ==
    /\ file_path = <<>>
    /\ fs = <<>>
    /\ pdf_result = <<>>
    /\ extract_result = <<>>
    /\ proc_pc = "idle"

GenIdle ==
    /\ gen_call = <<>>
    /\ remote_reply = <<>>
    /\ gen_out = <<>>
    /\ gen_pc = "idle"

AgentIdle ==
    /\ total_requests = 0
    /\ successful_requests = 0
    /\ failed_requests = 0
    /\ active_tasks = <<>>
    /\ handlers = <<>>

McpIdle == mcp = <<>>

UploadIdle ==
    /\ temp_dir = <<>>
    /\ uploads = <<>>

ChunkInit ==
    /\ text \in Texts
    /\ max_size \in 1..MaxChunkSize
    /\ final_chunks = <<>>
    /\ chunk_pc = "call"
    /\ ProcIdle
    /\ GenIdle
    /\ AgentIdle
    /\ McpIdle
    /\ UploadIdle

CreateChunks ==
    /\ chunk_pc = "call"
    /\ final_chunks' = _create_chunks(text, max_size)
    /\ chunk_pc' = "returned"
    /\ UNCHANGED <<text, max_size>>
    /\ UNCHANGED <<procVars, genVars, agentVars, mcpVars, uploadVars>>

ChunkNext == CreateChunks

SpecChunk == ChunkInit /\ [][ChunkNext]_vars

(***************************************************************************)
(* Pipeline runs: every path, every answer of the file system and of the   *)
(* two libraries; process_document or _extract_text is called once         *)
(***************************************************************************)
ProcInit ==
    /\ file_path \in Paths
    /\ fs \in FileStates
    /\ pdf_result = <<>>
    /\ extract_result = <<>>
    /\ proc_pc = "call"
    /\ ChunkIdle
    /\ GenIdle
    /\ AgentIdle
    /\ McpIdle
    /\ UploadIdle

ProcessDocument ==
    /\ proc_pc = "call"
    /\ pdf_result' = process_document(file_path, fs)
    /\ proc_pc' = "processed"
    /\ UNCHANGED <<file_path, fs, extract_result>>
    /\ UNCHANGED <<chunkVars, genVars, agentVars, mcpVars, uploadVars>>

\* _extract_text is reached only past the existence and size checks
ExtractText ==
    /\ proc_pc = "call"
    /\ fs.exists
    /\ fs.file_size <= max_file_size
    /\ extract_result' = _extract_text(fs)
    /\ proc_pc' = "extracted"
    /\ UNCHANGED <<file_path, fs, pdf_result>>
    /\ UNCHANGED <<chunkVars, genVars, agentVars, mcpVars, uploadVars>>

ProcNext == ProcessDocument \/ ExtractText

SpecProc == ProcInit /\ [][ProcNext]_vars

(***************************************************************************)
(* Gateway runs: one call of one of the four operations, every reply       *)
(***************************************************************************)
DocTexts == {<<"s">>, <<"p", "\n", "p">>}

SummaryLengths == 0..MaxSummaryLength \cup {300, 500}

Questions == {None, Some(<<"Who wrote it?">>)}

GenRequests ==
    [prompt : {<<"Hello">>}, model : {None, Some("other-model")},
     max_tokens : {None, Some(0), Some(64)},
     temperature : {None, Some(0), Some(9)},
     top_p : {None, Some(0), Some(5)},
     stop_sequences : {None}, stream : {Some(FALSE)}]

GatewayCalls ==
    [op : {"summarize_text"}, text : DocTexts, max_length : SummaryLengths]
    \cup [op : {"answer_question"}, context : DocTexts, question : Questions]
    \cup [op : {"extract_key_points"}, text : DocTexts]
    \cup [op : {"generate_text"}, request : GenRequests]

GenInit ==
    /\ gen_call \in GatewayCalls
    /\ remote_reply \in Remotes
    /\ gen_out = <<>>
    /\ gen_pc = "call"
    /\ ChunkIdle
    /\ ProcIdle
    /\ AgentIdle
    /\ McpIdle
    /\ UploadIdle

GenReturn(out) ==
    /\ gen_out' = out
    /\ gen_pc' = "returned"
    /\ UNCHANGED <<gen_call, remote_reply>>
    /\ UNCHANGED <<chunkVars, procVars, agentVars, mcpVars, uploadVars>>

SummarizeText ==
    /\ gen_pc = "call"
    /\ gen_call.op = "summarize_text"
    /\ GenReturn(summarize_text(gen_call.text, gen_call.max_length, remote_reply))

AnswerQuestion ==
    /\ gen_pc = "call"
    /\ gen_call.op = "answer_question"
    /\ GenReturn(answer_question(gen_call.context, gen_call.question, remote_reply))

ExtractKeyPoints ==
    /\ gen_pc = "call"
    /\ gen_call.op = "extract_key_points"
    /\ GenReturn(extract_key_points(gen_call.text, remote_reply))

GenerateText ==
    /\ gen_pc = "call"
    /\ gen_call.op = "generate_text"
    /\ GenReturn(generate_text(gen_call.request, remote_reply))

GenNext == SummarizeText \/ AnswerQuestion \/ ExtractKeyPoints \/ GenerateText

SpecGen == GenInit /\ [][GenNext]_vars

(***************************************************************************)
(* The agent: MaxRequests calls of _handle_acp_request on one event loop.  *)
(* A handler runs without interruption up to its await of the post and     *)
(* again from the reply to its return.                                     *)
(***************************************************************************)
GoodFile ==
    [exists |-> TRUE, file_size |-> max_file_size, openable |-> TRUE,
     primary |-> [raises |-> FALSE, pages |-> <<<<"p">>, <<"p">>>>],
     secondary |-> [raises |-> FALSE, pages |-> <<<<"s">>>>],
     metadata |-> [raises |-> FALSE, page_count |-> 2, info |-> None]]

PdfPath == <<"/docs/", "report", ".pdf">>

TxtPath == <<"/docs/", "notes", ".txt">>

\* the documents requests name: a good one, a missing one, one that is not a
\* PDF, one without text and one the secondary library fails on
AgentDocs ==
    {[path |-> PdfPath, file |-> GoodFile],
     [path |-> PdfPath, file |-> [GoodFile EXCEPT !.exists = FALSE]],
     [path |-> TxtPath, file |-> GoodFile],
     [path |-> PdfPath,
      file |-> [GoodFile EXCEPT !.primary.pages = <<<<" ">>>>,
                                !.secondary.pages = <<>>]],
     [path |-> PdfPath,
      file |-> [GoodFile EXCEPT
                   !.primary = [raises |-> TRUE,
                                exc |-> Exc("AssertionError", <<>>)],
                   !.secondary = [raises |-> TRUE,
                                  exc |-> Exc("AssertionError", <<>>)]]]}

\* task and parameters of the requests
TaskRequests ==
    [task : {"summarize"},
     parameters : {None, Some([max_length |-> 300])}]
    \cup [task : {"question_answer"},
          parameters : {None, Some([k \in {} |-> 0]),
                        Some([max_length |-> 300]),
                        Some([question |-> <<"Who wrote it?">>])}]
    \cup [task : {"extract"},
          parameters : {None, Some([extraction_type |-> "key_points"]),
                        Some([extraction_type |-> "tables"])}]
    \cup [task : {"analyze"}, parameters : {None}]

\* the replies the agent's posts get: a result, a reply without result, a
\* non-success status with its error payload, a timeout
AgentRemotes ==
    {r \in Remotes :
        \/ r.kind = "transport" /\ r.exc.class = "TimeoutException"
        \/ r.kind = "response" /\ r.status_code = 500 /\ r.content
        \/ r.kind = "response" /\ r.status_code = 200 /\ r.json.ok
              /\ "usage" \notin DOMAIN r.json.val
              /\ "model_id" \notin DOMAIN r.json.val}

RequestIdOf(i) == <<"req_", ToString(i)>>

HandlerIds == 1..MaxRequests

AgentInit ==
    /\ total_requests = 0
    /\ successful_requests = 0
    /\ failed_requests = 0
    /\ active_tasks = [k \in {} |-> None]
    /\ handlers = [i \in HandlerIds |-> [pc |-> "idle"]]
    /\ ChunkIdle
    /\ ProcIdle
    /\ GenIdle
    /\ McpIdle
    /\ UploadIdle

\* a success path that stamps the running count of requests into the
\* identifier of the response
OnSuccess_StampsCount(i, h, result, posted) ==
    /\ successful_requests' = successful_requests + 1
    /\ handlers' = [handlers EXCEPT ![i] =
            [pc |-> "done", request |-> h.request, file |-> h.file,
             posted |-> posted, reply |-> h.reply, calls |-> h.calls,
             escaped |-> None,
             response |-> Some(SuccessResponse(
                 [h.request EXCEPT !.request_id =
                     <<ToString(total_requests)>>], result))]]
    /\ UNCHANGED failed_requests

\* a success path that counts the request as a failure too
OnSuccess_CountsBoth(i, h, result, posted) ==
    /\ successful_requests' = successful_requests + 1
    /\ failed_requests' = failed_requests + 1
    /\ handlers' = [handlers EXCEPT ![i] =
            [pc |-> "done", request |-> h.request, file |-> h.file,
             posted |-> posted, reply |-> h.reply, calls |-> h.calls,
             escaped |-> None,
             response |-> Some(SuccessResponse(h.request, result))]]

\* the success path from the return of _perform_task (lines 109-119)
OnSuccess(i, h, result, posted) ==
    /\ successful_requests' = successful_requests + 1
    /\ handlers' = [handlers EXCEPT ![i] =
            [pc |-> "done", request |-> h.request, file |-> h.file,
             posted |-> posted, reply |-> h.reply, calls |-> h.calls,
                 escaped |-> None,
             response |-> Some(SuccessResponse(h.request, result))]]
    /\ UNCHANGED failed_requests

\* an except clause that answers without counting the failure
OnException_NoCount(i, h, e, posted) ==
    /\ handlers' = [handlers EXCEPT ![i] =
            [pc |-> "done", request |-> h.request, file |-> h.file,
             posted |-> posted, reply |-> h.reply, calls |-> h.calls,
                 escaped |-> None,
             response |-> Some(FailureResponse(h.request, e))]]
    /\ UNCHANGED <<successful_requests, failed_requests>>

\* an exception raised in the try block: the except clause (lines 121-132),
\* or the exception leaves the handler
OnException(i, h, e, posted) ==
    IF HandlerCatches(e)
    THEN /\ failed_requests' = failed_requests + 1
         /\ handlers' = [handlers EXCEPT ![i] =
                [pc |-> "done", request |-> h.request, file |-> h.file,
                 posted |-> posted, reply |-> h.reply, calls |-> h.calls,
                 escaped |-> None,
                 response |-> Some(FailureResponse(h.request, e))]]
         /\ UNCHANGED successful_requests
    ELSE /\ handlers' = [handlers EXCEPT ![i] =
                [pc |-> "done", request |-> h.request, file |-> h.file,
                 posted |-> posted, reply |-> h.reply, calls |-> h.calls,
                 escaped |-> Some(e),
                 response |-> None]]
         /\ UNCHANGED <<successful_requests, failed_requests>>

\* the handler from its entry to its first await, or to its return when it
\* fails before any await (lines 91-107)
HandleAcpRequestOf(i, d, t) ==
    /\ handlers[i].pc = "idle"
    /\  LET request == [request_id |-> RequestIdOf(i), task |-> t.task,
                        document_path |-> d.path, parameters |-> t.parameters]
            h == [request |-> request, file |-> d.file, reply |-> None,
                  calls |-> CallsBeforeAwait(request, d.file)]
            pre == Preflight(request, d.file)
        IN /\ total_requests' = total_requests + 1
           /\ IF ~pre.ok THEN OnException(i, h, pre.exc, <<>>)
              ELSE LET call == GatewayCallOf(request.task, pre.val.document[1],
                                             request.parameters)
                   IN IF ~call.ok THEN OnException(i, h, call.exc, <<>>)
                      ELSE /\ handlers' = [handlers EXCEPT ![i] =
                                 [pc |-> "awaiting", request |-> request,
                                  file |-> d.file, reply |-> None,
                                  pdf |-> pre.val, calls |-> h.calls,
                                  posted |-> <<Payload(call.val.request)>>]]
                           /\ UNCHANGED <<successful_requests, failed_requests>>
    /\ UNCHANGED active_tasks
    /\ UNCHANGED <<chunkVars, procVars, genVars, mcpVars, uploadVars>>

\* a request for any of the documents and tasks reaches the handler
HandleAcpRequest(i) ==
    \E d \in AgentDocs, t \in TaskRequests : HandleAcpRequestOf(i, d, t)

\* a loop that resumes a handler only when no other handler awaits a post
GatewayReply_OnlyWhenAlone(i) ==
    /\ handlers[i].pc = "awaiting"
    /\ \A j \in HandlerIds \ {i} : handlers[j].pc # "awaiting"
    /\ \E remote \in AgentRemotes :
        LET h == [handlers[i] EXCEPT !.reply = Some(remote)]
            t == _perform_task(h.request.task, h.pdf, h.request.parameters,
                               remote)
        IN IF t.outcome.ok
           THEN OnSuccess(i, h, t.outcome.val, t.posted)
           ELSE OnException(i, h, t.outcome.exc, t.posted)
    /\ UNCHANGED <<total_requests, active_tasks>>
    /\ UNCHANGED <<chunkVars, procVars, genVars, mcpVars, uploadVars>>

\* the remote endpoint answers the post of handler i (or the transport
\* fails): the handler resumes and runs to its return (lines 107-132)
GatewayReply(i) ==
    /\ handlers[i].pc = "awaiting"
    /\ \E remote \in AgentRemotes :
        LET h == [handlers[i] EXCEPT !.reply = Some(remote)]
            t == _perform_task(h.request.task, h.pdf, h.request.parameters,
                               remote)
        IN IF t.outcome.ok
           THEN OnSuccess(i, h,
                          t.outcome.val, t.posted)
           ELSE OnException(i, h, t.outcome.exc, t.posted)
    /\ UNCHANGED <<total_requests, active_tasks>>
    /\ UNCHANGED <<chunkVars, procVars, genVars, mcpVars, uploadVars>>

\* _get_status (lines 270-282)
_get_status ==
    [status |-> "running", total_requests |-> total_requests,
     successful_requests |-> successful_requests,
     failed_requests |-> failed_requests]

Next ==
    \/ \E i \in HandlerIds : HandleAcpRequest(i)
    \/ \E i \in HandlerIds : GatewayReply(i)

Spec == AgentInit /\ [][Next]_vars

\* the requests of the progress runs: extract requests on the documents
\* both libraries can read
FairDocs == {d \in AgentDocs : d.path = PdfPath /\ ~d.file.primary.raises}

FairTasks == {t \in TaskRequests : t.task = "extract"}

DispatchRequest(i) ==
    \E d \in FairDocs, t \in FairTasks : HandleAcpRequestOf(i, d, t)

FairNext ==
    \/ \E i \in HandlerIds : DispatchRequest(i)
    \/ \E i \in HandlerIds : GatewayReply(i)

\* every post is answered in the end: the endpoint replies, the connection
\* fails, or the client's 30 s timeout expires (client.py line 64)
FairSpec ==
    /\ AgentInit
    /\ [][FairNext]_vars
    /\ \A i \in HandlerIds : WF_vars(GatewayReply(i))

(***************************************************************************)
(* The MCP server: one call of /mcp/query, every method, every reply of    *)
(* the gateway.                                                            *)
(***************************************************************************)
McpIds == {<<"q1">>, <<"q2">>}

McpMethods == McpHandlers \cup {"text/translate"}

\* params of the queries: absent, empty, with and without the parameters
\* the handlers require, one of them an empty string
McpParams ==
    {None, Some([k \in {} |-> None]),
     Some([prompt |-> <<"Hello">>]), Some([prompt |-> <<>>]),
     Some([prompt |-> <<"Hello">>, max_tokens |-> 64, temperature |-> 2]),
     Some([text |-> <<"s">>]), Some([text |-> <<"s">>, max_length |-> 8]),
     Some([context |-> <<"s">>]), Some([question |-> <<"Who wrote it?">>]),
     Some([context |-> <<"s">>, question |-> <<"Who wrote it?">>])}

McpRequests == [id : McpIds, method : McpMethods, params : McpParams]

\* the query reaches the await of a post
AwaitsGateway(request) ==
    /\ request.method \in McpHandlers
    /\ McpCallOf(request.method, ParamsOrEmpty(request.params)).ok

McpInit ==
    /\ mcp = [pc |-> "idle"]
    /\ ChunkIdle
    /\ ProcIdle
    /\ GenIdle
    /\ AgentIdle
    /\ UploadIdle

McpDone(request, reply, out) ==
    [pc |-> "done", request |-> request, reply |-> reply,
     posted |-> out.posted,
     response |-> IF out.outcome.ok THEN Some(out.outcome.val) ELSE None,
     escaped |-> IF out.outcome.ok THEN None ELSE Some(out.outcome.exc)]

\* the route from the arrival of a query to its await of the gateway's
\* post, or to its reply when it makes no post
McpQuery ==
    /\ mcp.pc = "idle"
    /\ \E request \in McpRequests :
        mcp' = IF AwaitsGateway(request)
               THEN [pc |-> "awaiting", request |-> request,
                     posted |-> <<Payload(McpCallOf(request.method,
                                     ParamsOrEmpty(request.params)).val)>>]
               ELSE McpDone(request, None, handle_mcp_query(request, None))
    /\ UNCHANGED <<chunkVars, procVars, genVars, agentVars, uploadVars>>

\* the gateway's post is answered (or its transport fails): the route runs
\* to its reply
McpGatewayReply ==
    /\ mcp.pc = "awaiting"
    /\ \E remote \in Remotes :
        mcp' = McpDone(mcp.request, Some(remote),
                       handle_mcp_query(mcp.request, remote))
    /\ UNCHANGED <<chunkVars, procVars, genVars, agentVars, uploadVars>>

McpNext == McpQuery \/ McpGatewayReply

SpecMcp == McpInit /\ [][McpNext]_vars

(***************************************************************************)
(* The upload route: ACPAgent._handle_file_upload (lines 134-178).         *)
(* MaxUploads calls on one event loop; a call is suspended at its await of *)
(* file.read() and at the await of the gateway's post.                     *)
(***************************************************************************)
MaxUploads == 2

UploadIds == 1..MaxUploads

\* self.config.pdf.temp_directory
temp_directory == "./temp/"

\* HTTPException(status_code=..., detail=...)
HTTPException(status_code, detail) ==
    [class |-> "HTTPException", status_code |-> status_code, msg |-> detail]

\* a status route that answers from the requests the handlers have answered
get_task_status_FromHandlers(task_id) ==
    IF \E i \in DOMAIN handlers :
          handlers[i].pc = "done" /\ handlers[i].request.request_id = task_id
    THEN Ok([task_id |-> task_id, status |-> "completed"])
    ELSE Err(HTTPException(404, <<"Task not found">>))

\* GET /acp/tasks/{task_id} (lines 77-82)
get_task_status(task_id) ==
    IF task_id \notin DOMAIN active_tasks
    THEN Err(HTTPException(404, <<"Task not found">>))
    ELSE Ok(active_tasks[task_id])

\* a check that accepts every filename
AcceptedFilename_Any(filename) == TRUE

\* file.filename.lower().endswith('.pdf') (line 140)
AcceptedFilename(filename) == EndsWithPdf(filename)

\* json.loads on the parameters strings of the uploads
json_loads(parameters) ==
    CASE parameters = "{}" -> Ok([k \in {} |-> None])
      [] parameters = "{\"extraction_type\": \"tables\"}" ->
            Ok([extraction_type |-> "tables"])
      [] OTHER -> Err(Exc("JSONDecodeError", <<"Expecting property name">>))

\* the parameters of the request (lines 153-158): the dict parsed from a
\* non-empty string, {} otherwise
TaskParams(parameters) ==
    IF parameters = None \/ parameters[1] = "" THEN Ok([k \in {} |-> None])
    ELSE LET parsed == json_loads(parameters[1]) IN
         IF parsed.ok THEN parsed
         ELSE Err(HTTPException(400, <<"Invalid parameters JSON">>))

\* TaskType(task) (line 163)
TaskTypes == {"summarize", "question_answer", "extract", "analyze"}

TaskType(task) ==
    IF task \in TaskTypes THEN Ok(task)
    ELSE Err(Exc("ValueError", <<"'", task, "' is not a valid TaskType">>))

\* the file a path of the temporary directory names
FileAt(dir, filename) ==
    IF filename \in DOMAIN dir THEN dir[filename]
    ELSE [GoodFile EXCEPT !.exists = FALSE]

\* open(file_path, "wb"): the file is created or truncated
EmptyFile ==
    [exists |-> TRUE, file_size |-> 0, openable |-> FALSE,
     primary |-> [raises |-> TRUE, exc |-> Exc("AssertionError", <<>>)],
     secondary |-> [raises |-> TRUE,
                    exc |-> Exc("PdfReadError", <<"EOF marker not found">>)],
     metadata |-> [raises |-> TRUE]]

\* dir with filename bound to f
WriteFile(dir, filename, f) ==
    [n \in DOMAIN dir \cup {filename} |-> IF n = filename THEN f ELSE dir[n]]

\* dir without filename
RemoveFile(dir, filename) == [n \in DOMAIN dir \ {filename} |-> dir[n]]

\* a clean-up that empties the temporary directory
Remove_All(dir, filename, refused) ==
    [dir |-> [n \in {} |-> EmptyFile], removal |-> "removed"]

\* os.remove(file_path) inside try/except-pass (lines 173-176): the file is
\* removed, or the call raises (the file is gone, or the system refuses) and
\* the exception is swallowed
Remove(dir, filename, refused) ==
    IF filename \in DOMAIN dir /\ ~refused
    THEN [dir |-> RemoveFile(dir, filename), removal |-> "removed"]
    ELSE [dir |-> dir, removal |-> "failed"]

\* the uploads: a filename, the content of the file, the task and the
\* parameters string
UploadFilenames == {<<"report", ".pdf">>, <<"SCAN", ".PDF">>, <<"notes", ".txt">>}

UploadContents ==
    {GoodFile,
     [GoodFile EXCEPT !.primary.pages = <<<<" ">>>>, !.secondary.pages = <<>>]}

UploadTasks ==
    {[task |-> "summarize", parameters |-> None],
     [task |-> "summarize", parameters |-> Some("{oops")],
     [task |-> "translate", parameters |-> Some("{}")],
     [task |-> "extract",
      parameters |-> Some("{\"extraction_type\": \"tables\"}")]}

\* os.path.join(temp_dir, file.filename)
FilePathOf(filename) == <<temp_directory>> \o filename

\* str(uuid.uuid4()): one fresh identifier per call
UploadRequestId(u) == <<"upload_", ToString(u)>>

UploadInit ==
    /\ total_requests = 0
    /\ successful_requests = 0
    /\ failed_requests = 0
    /\ active_tasks = <<>>
    /\ handlers = <<>>
    /\ temp_dir = [n \in {} |-> EmptyFile]
    /\ uploads = [u \in UploadIds |-> [pc |-> "idle"]]
    /\ ChunkIdle
    /\ ProcIdle
    /\ GenIdle
    /\ McpIdle

\* the call ends: with the response of _handle_acp_request (out.ok) or with
\* an exception that leaves the route
UploadDone(up, wrote, removal, posted, reply, out) ==
    [pc |-> "done", filename |-> up.filename, content |-> up.content,
     task |-> up.task, parameters |-> up.parameters, wrote |-> wrote,
     removal |-> removal, posted |-> posted, reply |-> reply, out |-> out]

\* lines 170-178 from the return of the try block of _handle_acp_request:
\* the counters, the response, the removal of the temporary file
UploadRespond(u, up, request, dir, posted, reply, outcome) ==
    IF ~outcome.ok /\ ~HandlerCatches(outcome.exc)
    THEN /\ uploads' = [uploads EXCEPT ![u] =
                UploadDone(up, TRUE, "none", posted, reply, outcome)]
         /\ temp_dir' = dir
         /\ UNCHANGED <<successful_requests, failed_requests>>
    ELSE \E refused \in BOOLEAN :
         LET r == Remove(dir, up.filename, refused)
             response == IF outcome.ok
                         THEN SuccessResponse(request, outcome.val)
                         ELSE FailureResponse(request, outcome.exc)
         IN /\ uploads' = [uploads EXCEPT ![u] =
                   UploadDone(up, TRUE, r.removal, posted, reply,
                              Ok(response))]
            /\ temp_dir' = r.dir
            /\ IF outcome.ok
               THEN /\ successful_requests' = successful_requests + 1
                    /\ UNCHANGED failed_requests
               ELSE /\ failed_requests' = failed_requests + 1
                    /\ UNCHANGED successful_requests

\* the request of an upload (lines 161-167)
UploadRequest(u, up, task_params) ==
    [request_id |-> UploadRequestId(u), task |-> up.task,
     document_path |-> FilePathOf(up.filename),
     parameters |-> Some(task_params)]

\* lines 140-149: the extension check, then the file is opened for writing
\* and the call awaits file.read()
UploadStart(u) ==
    /\ uploads[u].pc = "idle"
    /\ \E filename \in UploadFilenames, content \in UploadContents,
          t \in UploadTasks :
        LET up == [filename |-> filename, content |-> content,
                   task |-> t.task, parameters |-> t.parameters]
        IN IF ~AcceptedFilename(filename)
           THEN /\ uploads' = [uploads EXCEPT ![u] =
                       UploadDone(up, FALSE, "none", <<>>, None,
                           Err(HTTPException(400,
                                   <<"Only PDF files are supported">>)))]
                /\ UNCHANGED temp_dir
           ELSE /\ uploads' = [uploads EXCEPT ![u] =
                       [pc |-> "reading", filename |-> filename,
                        content |-> content, task |-> t.task,
                        parameters |-> t.parameters]]
                /\ temp_dir' = WriteFile(temp_dir, filename, EmptyFile)
    /\ UNCHANGED <<counterVars, active_tasks, handlers>>
    /\ UNCHANGED <<chunkVars, procVars, genVars, mcpVars>>

\* lines 149-170: the content is read and written, the parameters parsed,
\* the request built and _handle_acp_request run to its await of the post,
\* or to its return when it fails before (then lines 172-178 follow)
UploadRead(u) ==
    /\ uploads[u].pc = "reading"
    /\ LET up == uploads[u]
           \* a file unlinked in the meantime does not come back
           dir == IF up.filename \in DOMAIN temp_dir
                  THEN WriteFile(temp_dir, up.filename, up.content)
                  ELSE temp_dir
           task_params == TaskParams(up.parameters)
           task == TaskType(up.task)
       IN IF ~task_params.ok \/ ~task.ok
          THEN /\ uploads' = [uploads EXCEPT ![u] =
                      UploadDone(up, TRUE, "none", <<>>, None,
                                 IF ~task_params.ok THEN task_params ELSE task)]
               /\ temp_dir' = dir
               /\ UNCHANGED counterVars
          ELSE LET request == UploadRequest(u, up, task_params.val)
                   pre == Preflight(request, FileAt(dir, up.filename))
               IN /\ total_requests' = total_requests + 1
                  /\ IF ~pre.ok
                     THEN UploadRespond(u, up, request, dir, <<>>, None, pre)
                     ELSE LET call == GatewayCallOf(request.task,
                                          pre.val.document[1],
                                          request.parameters)
                          IN IF ~call.ok
                             THEN UploadRespond(u, up, request, dir, <<>>,
                                                None, call)
                             ELSE /\ uploads' = [uploads EXCEPT ![u] =
                                        [pc |-> "awaiting",
                                         filename |-> up.filename,
                                         content |-> up.content,
                                         task |-> up.task,
                                         parameters |-> up.parameters,
                                         request |-> request,
                                         pdf |-> pre.val,
                                         posted |->
                                            <<Payload(call.val.request)>>]]
                                  /\ temp_dir' = dir
                                  /\ UNCHANGED <<successful_requests,
                                                 failed_requests>>
    /\ UNCHANGED <<active_tasks, handlers>>
    /\ UNCHANGED <<chunkVars, procVars, genVars, mcpVars>>

\* the post of upload u is answered (or its transport fails): lines 107-132
\* of _handle_acp_request, then lines 172-178
UploadGatewayReply(u) ==
    /\ uploads[u].pc = "awaiting"
    /\ \E remote \in AgentRemotes :
        LET up == uploads[u]
            t == _perform_task(up.request.task, up.pdf,
                               up.request.parameters, remote)
        IN UploadRespond(u, up, up.request, temp_dir, t.posted, Some(remote),
                         t.outcome)
    /\ UNCHANGED <<total_requests, active_tasks, handlers>>
    /\ UNCHANGED <<chunkVars, procVars, genVars, mcpVars>>

UploadNext ==
    \/ \E u \in UploadIds : UploadStart(u)
    \/ \E u \in UploadIds : UploadRead(u)
    \/ \E u \in UploadIds : UploadGatewayReply(u)

SpecUpload == UploadInit /\ [][UploadNext]_vars

(***************************************************************************)
(* Claims about the chunker                                                *)
(***************************************************************************)
\* a chunk holds a sentence boundary strictly inside it
HasInteriorBoundary(c) == Find(c, SentenceSep) # 0

\* C1: every chunk returned by _create_chunks has length <= max_size,
\* unless it is one single sentence (no interior period-plus-space)
C1_ChunkWithinLimit ==
    chunk_pc = "returned" =>
        \A i \in 1..Len(final_chunks) :
            \/ Len(final_chunks[i]) <= max_size
            \/ ~HasInteriorBoundary(final_chunks[i])

(***************************************************************************)
(* Claims about the pipeline                                               *)
(***************************************************************************)
\* a method yields text when it returns and its text is not blank
PrimaryYieldsText(f) ==
    ~f.primary.raises /\ strip(PagesText(f.primary.pages, max_pages)) # <<>>

SecondaryYieldsText(f) ==
    ~f.secondary.raises
        /\ strip(PagesText(f.secondary.pages, max_pages)) # <<>>

\* process_document has a failure to report: a validation or extractor failure
PipelineFails(f) ==
    \/ ~f.exists
    \/ f.file_size > max_file_size
    \/ (~PrimaryYieldsText(f) /\ ~SecondaryYieldsText(f))

\* C2: process_document always returns a ProcessingResult, and a validation
\* or extractor failure gives success=false with a non-empty error message
C2_FailureHasMessage ==
    proc_pc = "processed" =>
        /\ Returned(pdf_result)
        /\ PipelineFails(fs) =>
              /\ pdf_result.result.success = FALSE
              /\ pdf_result.result.error # None
              /\ pdf_result.result.error[1] # <<>>

\* C7: the failure cause is the first failing check in the order existence,
\* size, non-empty text; a missing path fails before the size check and an
\* oversized file fails before either extraction method is called
C7_ValidationOrder ==
    proc_pc = "processed" =>
        /\ Returned(pdf_result)
        /\ ~fs.exists =>
              /\ pdf_result.result.success = FALSE
              /\ pdf_result.result.error = Some(<<"File not found: ">> \o file_path)
              /\ pdf_result.calls = <<"exists">>
        /\ (fs.exists /\ fs.file_size > max_file_size) =>
              /\ pdf_result.result.success = FALSE
              /\ pdf_result.result.error =
                    Some(<<"File too large: ", ToString(fs.file_size), " bytes">>)
              /\ pdf_result.calls = <<"exists", "getsize">>
        /\ (fs.exists /\ fs.file_size <= max_file_size
                /\ ~PrimaryYieldsText(fs) /\ ~fs.secondary.raises
                /\ ~SecondaryYieldsText(fs)) =>
              /\ pdf_result.result.success = FALSE
              /\ pdf_result.result.error = Some(<<"No text content found in PDF">>)

\* C7 witness: a path that is missing and would also be too large
C7_Witness ==
    /\ proc_pc = "processed"
    /\ ~fs.exists
    /\ fs.file_size > max_file_size
    /\ pdf_result.calls = <<"exists">>

\* C8 as stated: _extract_text fails whenever neither method yields text
C8_ExtractFailsWhenNoText ==
    (proc_pc = "extracted" /\ ~PrimaryYieldsText(fs) /\ ~SecondaryYieldsText(fs))
        => ~extract_result.ok

\* C8 amended: _extract_text raises exactly when the primary method yields no
\* text and the secondary method raises, and then raises the secondary
\* method's exception; when the secondary method returns blank text it is
\* returned, and process_document is what reports the failure
C8_NoTextFailsInProcess ==
    /\ proc_pc = "extracted" =>
          /\ ~extract_result.ok <=> (~PrimaryYieldsText(fs) /\ fs.secondary.raises)
          /\ ~extract_result.ok => extract_result.exc = fs.secondary.exc
          /\ (~PrimaryYieldsText(fs) /\ ~fs.secondary.raises) =>
                extract_result.val = PagesText(fs.secondary.pages, max_pages)
    /\ (proc_pc = "processed" /\ fs.exists /\ fs.file_size <= max_file_size
            /\ ~PrimaryYieldsText(fs) /\ ~SecondaryYieldsText(fs)) =>
          /\ Returned(pdf_result)
          /\ pdf_result.result.success = FALSE
          /\ pdf_result.result.error =
                IF fs.secondary.raises THEN Some(str(fs.secondary.exc))
                ELSE Some(<<"No text content found in PDF">>)

\* C8 witness: both methods return blank text and process_document fails
C8_Witness ==
    /\ proc_pc = "processed"
    /\ fs.exists /\ fs.file_size <= max_file_size
    /\ ~fs.primary.raises /\ ~fs.secondary.raises
    /\ ~PrimaryYieldsText(fs) /\ ~SecondaryYieldsText(fs)
    /\ pdf_result.result.error = Some(<<"No text content found in PDF">>)

(***************************************************************************)
(* Claims about the gateway                                                *)
(***************************************************************************)
NonSuccessReply(r) == r.kind = "response" /\ r.status_code # 200

TransportFailure(r) == r.kind = "transport"

NoResultReply(r) ==
    /\ r.kind = "response" /\ r.status_code = 200 /\ r.json.ok
    /\ DictGet(r.json.val, "results", <<>>) = <<>>

\* the message of the error a caller of the gateway holds
ErrorText(e) == IF "error" \in DOMAIN e THEN e.error ELSE e.msg

\* C4: the error raised by the gateway carries the upstream status code and
\* the raw payload for a non-success reply, is a network error for a
\* transport failure and a parse error for a success reply without result
C4_GatewayErrorClasses ==
    gen_pc = "returned" =>
        /\ (NonSuccessReply(remote_reply) /\ remote_reply.json.ok) =>
              /\ ~gen_out.outcome.ok
              /\ "code" \in DOMAIN gen_out.outcome.exc
              /\ gen_out.outcome.exc.code = Some(ToString(remote_reply.status_code))
              /\ gen_out.outcome.exc.details = Some(remote_reply.json.val)
        /\ TransportFailure(remote_reply) =>
              /\ ~gen_out.outcome.ok
              /\ ErrorText(gen_out.outcome.exc) # <<>>
              /\ Head(ErrorText(gen_out.outcome.exc)) = "Network error: "
        /\ NoResultReply(remote_reply) =>
              /\ ~gen_out.outcome.ok
              /\ ErrorText(gen_out.outcome.exc) # <<>>
              /\ Head(ErrorText(gen_out.outcome.exc)) \in
                    {"No results in response", "Error parsing response: "}

\* C9: summarize_text posts max_new_tokens = max_length / 4 (integer division)
C9_SummaryTokenBudget ==
    (gen_pc = "returned" /\ gen_call.op = "summarize_text") =>
        gen_out.payload.parameters.max_new_tokens = gen_call.max_length \div 4

(***************************************************************************)
(* Claims about the agent                                                  *)
(***************************************************************************)
Done(i) == handlers[i].pc = "done"

\* the reply carries a result the gateway can return
GoodReply(r) ==
    /\ r.kind = "response" /\ r.status_code = 200 /\ r.json.ok
    /\ DictGet(r.json.val, "results", <<>>) # <<>>

GatewayFailed(h) == h.reply # None /\ ~GoodReply(h.reply[1])

\* something failed downstream of the handler: the pre-flight validation,
\* the pipeline, the dispatcher or the gateway
DownstreamFailed(h) ==
    \/ ~Preflight(h.request, h.file).ok
    \/ ~GatewayCallOf(h.request.task,
                      Preflight(h.request, h.file).val.document[1],
                      h.request.parameters).ok
    \/ GatewayFailed(h)

\* C3: whatever fails downstream, _handle_acp_request returns a response
\* with success=false and a non-empty error, and no exception leaves it
C3_FailureIsAResponse ==
    \A i \in HandlerIds :
        Done(i) =>
            /\ handlers[i].escaped = None
            /\ handlers[i].response # None
            /\ DownstreamFailed(handlers[i]) =>
                  /\ handlers[i].response[1].success = FALSE
                  /\ handlers[i].response[1].error # None
                  /\ handlers[i].response[1].error[1] # <<>>

\* C3 witness: a handler whose gateway call failed has answered
C3_Witness ==
    \E i \in HandlerIds :
        /\ Done(i)
        /\ GatewayFailed(handlers[i])
        /\ handlers[i].response # None
        /\ handlers[i].response[1].success = FALSE

\* the message the gateway gives its failure (client.py lines 78 and 85)
GatewayFailureMessage(r) ==
    IF r.kind = "transport" THEN <<"Network error: ">> \o str(r.exc)
    ELSE <<"Watsonx.ai API error: ", ToString(r.status_code)>>

\* C5: when the gateway call fails, the response's error is the gateway's
\* own failure message, with the upstream status for a non-success reply
C5_GatewayErrorVerbatim ==
    \A i \in HandlerIds :
        (/\ Done(i)
         /\ handlers[i].reply # None
         /\ \/ TransportFailure(handlers[i].reply[1])
            \/ NonSuccessReply(handlers[i].reply[1])) =>
            /\ handlers[i].response # None
            /\ handlers[i].response[1].error =
                  Some(GatewayFailureMessage(handlers[i].reply[1]))

NoneInFlight == \A i \in HandlerIds : handlers[i].pc \in {"idle", "done"}

Completed == Cardinality({i \in HandlerIds : Done(i)})

\* C6: once N requests have all completed, in any interleaving, the status
\* shows total_requests = N and successful_requests + failed_requests = N
C6_CountersAfterCompletion ==
    NoneInFlight =>
        /\ _get_status.total_requests = Completed
        /\ _get_status.successful_requests + _get_status.failed_requests
              = Completed

\* C6 witness: every request has completed, some succeeded and some failed
C6_Witness ==
    /\ \A i \in HandlerIds : Done(i)
    /\ successful_requests >= 1
    /\ failed_requests >= 1

\* the parameters hold no question key
NoQuestionKey(parameters) ==
    parameters = None \/ "question" \notin DOMAIN parameters[1]

\* C10: a question_answer task without question key uses the fixed generic
\* question, in the gateway call and in the question field of the result
C10_DefaultQuestion ==
    \A i \in HandlerIds :
        (/\ handlers[i].pc \in {"awaiting", "done"}
         /\ handlers[i].request.task = "question_answer"
         /\ NoQuestionKey(handlers[i].request.parameters)
         /\ handlers[i].posted # <<>>) =>
            /\ handlers[i].posted[1].input =
                  AnswerRequest(PagesText(handlers[i].file.primary.pages, max_pages),
                                Some(DefaultQuestion)).prompt
            /\ (Done(i) /\ handlers[i].response[1].success) =>
                  handlers[i].response[1].result[1].question
                      = Some(DefaultQuestion)

\* an extract request with an extraction type other than "key_points"
UnsupportedExtract(request) ==
    /\ request.task = "extract"
    /\ ExtractionTypeOf(request.parameters) # "key_points"

\* C11: an extract request with an unsupported extraction type is answered
\* in the step that starts it, without any post to the gateway, with
\* success=false, and it adds one to failed_requests; past the pre-flight
\* checks its error is the dispatcher's unsupported-type error
C11_UnsupportedExtraction ==
    [][\A i \in HandlerIds :
        (/\ handlers[i].pc = "idle"
         /\ handlers'[i].pc # "idle"
         /\ UnsupportedExtract(handlers'[i].request)) =>
            /\ handlers'[i].pc = "done"
            /\ handlers'[i].posted = <<>>
            /\ handlers'[i].reply = None
            /\ handlers'[i].response # None
            /\ handlers'[i].response[1].success = FALSE
            /\ failed_requests' = failed_requests + 1
            /\ successful_requests' = successful_requests
            /\ Preflight(handlers'[i].request, handlers'[i].file).ok =>
                  handlers'[i].response[1].error =
                      Some(<<"Unsupported extraction type: ",
                             ExtractionTypeOf(handlers'[i].request.parameters)>>)
      ]_vars

\* C11 witness: a request for "tables" on a good document has been answered
C11_Witness ==
    \E i \in HandlerIds :
        /\ Done(i)
        /\ UnsupportedExtract(handlers[i].request)
        /\ Preflight(handlers[i].request, handlers[i].file).ok
        /\ handlers[i].response[1].success = FALSE
        /\ failed_requests >= 1

(***************************************************************************)
(* Claims about the MCP server                                             *)
(***************************************************************************)
\* a required parameter of the method is missing or empty
MissingParameter(request) ==
    LET params == ParamsOrEmpty(request.params)
        Missing(key) == key \notin DOMAIN params \/ params[key] = <<>>
    IN CASE request.method = "text/generate" -> Missing("prompt")
         [] request.method = "text/answer_question" ->
                Missing("context") \/ Missing("question")
         [] OTHER -> Missing("text")

\* the handler of a supported method has raised
McpHandlerFailed(m) ==
    /\ m.request.method \in McpHandlers
    /\ \/ MissingParameter(m.request)
       \/ m.reply # None /\ ~GoodReply(m.reply[1])

\* the reply echoes the id, has no result and its error has the given code
McpErrorWithCode(m, code) ==
    /\ m.response # None
    /\ m.response[1].id = m.request.id
    /\ m.response[1].result = None
    /\ m.response[1].error # None
    /\ m.response[1].error[1].code = code

NonWhitespace(s) == SelectSeq(s, LAMBDA c : c \notin Whitespace)

\* the chunks joined back with the paragraph separator
Rejoined(chunks) == join(ParagraphSep, chunks)

\* C13: the chunks joined with paragraph separators are the text up to
\* whitespace: no other character is added, dropped or moved
C13_ChunksReconstructText ==
    chunk_pc = "returned" =>
        NonWhitespace(Rejoined(final_chunks)) = NonWhitespace(text)

\* C14: chunking the rejoined chunks with the same max_size gives the same
\* chunks
C14_ChunkingIdempotent ==
    chunk_pc = "returned" =>
        _create_chunks(Rejoined(final_chunks), max_size) = final_chunks

\* C15: for a non-empty text no chunk is empty and no chunk starts or ends
\* with whitespace
C15_ChunksTrimmedNonEmpty ==
    (chunk_pc = "returned" /\ text # <<>>) =>
        \A i \in 1..Len(final_chunks) :
            /\ final_chunks[i] # <<>>
            /\ strip(final_chunks[i]) = final_chunks[i]

(***************************************************************************)
(* Claims about the shape of the results                                   *)
(***************************************************************************)
\* a response of the success shape: a result and no error
SuccessShape(r) == r.success /\ r.result # None /\ r.error = None

\* a response of the failure shape: an error and no result
FailureShape(r) == ~r.success /\ r.error # None /\ r.result = None

\* C16: every response of /acp/process carries the request_id of its
\* request and has exactly one of the two shapes: success with a result and
\* no error, or failure with an error and no result
C16_ResponseShape ==
    \A i \in HandlerIds :
        Done(i) =>
            /\ handlers[i].response # None
            /\ handlers[i].response[1].request_id = handlers[i].request.request_id
            /\ SuccessShape(handlers[i].response[1])
                  # FailureShape(handlers[i].response[1])

\* C16 witness: one request has been answered with a result and another
\* with an error
C16_Witness ==
    \E i, j \in HandlerIds :
        /\ Done(i) /\ Done(j)
        /\ handlers[i].response # None /\ handlers[j].response # None
        /\ SuccessShape(handlers[i].response[1])
        /\ FailureShape(handlers[j].response[1])
        /\ handlers[i].response[1].request_id # handlers[j].response[1].request_id

\* a ProcessingResult of the success shape: a document, chunks, no error
PipelineSuccessShape(r) ==
    r.success /\ r.document # None /\ r.chunks # None /\ r.error = None

\* a ProcessingResult of the failure shape: an error, no document, no chunks
PipelineFailureShape(r) ==
    ~r.success /\ r.error # None /\ r.document = None /\ r.chunks = None

\* C17: every ProcessingResult that process_document returns has exactly one
\* of the two shapes: success with a document and chunks and no error, or
\* failure with its error field set and neither document nor chunks
C17_PipelineResultShape ==
    (proc_pc = "processed" /\ Returned(pdf_result)) =>
        PipelineSuccessShape(pdf_result.result)
            # PipelineFailureShape(pdf_result.result)

\* C17 witness: a document with text has been processed into chunks
C17_Witness ==
    /\ proc_pc = "processed"
    /\ Returned(pdf_result)
    /\ PipelineSuccessShape(pdf_result.result)
    /\ pdf_result.result.chunks[1] # <<>>

(***************************************************************************)
(* Claims about the upload route                                           *)
(***************************************************************************)
UploadDoneAt(u) == uploads[u].pc = "done"

\* C18: an upload that has written its file into the temporary directory
\* has called os.remove on it by the time it returns, whatever its outcome,
\* and a removal that fails leaves the reply the response of the request
C18_TempFileRemoved ==
    \A u \in UploadIds :
        (UploadDoneAt(u) /\ uploads[u].wrote) =>
            /\ uploads[u].removal # "none"
            /\ uploads[u].removal = "failed" => uploads[u].out.ok

\* the filename does not end with .pdf in any case of letters
NotPdfName(filename) == filename[Len(filename)] \notin {".pdf", ".PDF"}

\* C19: an upload whose filename lacks the .pdf extension is rejected with
\* status 400 in the step that starts it: no file is written, nothing is
\* posted to the gateway and the three counters keep their values
C19_NonPdfUploadRejected ==
    [][\A u \in UploadIds :
        (/\ uploads[u].pc = "idle"
         /\ uploads'[u].pc # "idle"
         /\ NotPdfName(uploads'[u].filename)) =>
            /\ uploads'[u].pc = "done"
            /\ ~uploads'[u].out.ok
            /\ uploads'[u].out.exc.class = "HTTPException"
            /\ uploads'[u].out.exc.status_code = 400
            /\ ~uploads'[u].wrote
            /\ uploads'[u].posted = <<>>
            /\ temp_dir' = temp_dir
            /\ UNCHANGED <<total_requests, successful_requests, failed_requests>>
      ]_vars

\* C19 witness: an upload of a .txt file has been rejected after another
\* upload was processed
C19_Witness ==
    \E u \in UploadIds :
        /\ UploadDoneAt(u)
        /\ NotPdfName(uploads[u].filename)
        /\ ~uploads[u].out.ok
        /\ uploads[u].out.exc.status_code = 400
        /\ total_requests = 1
        /\ uploads[u].filename \notin DOMAIN temp_dir

(***************************************************************************)
(* Claims about progress                                                   *)
(***************************************************************************)
\* handler i has returned its response
Answered(i) == Done(i) /\ handlers[i].response # None

\* C20: if every post to the gateway is answered in the end, every request
\* that has been dispatched is answered in the end, whatever the other
\* handlers are doing, and its one response is never replaced
C20_EveryRequestAnswered ==
    /\ \A i \in HandlerIds : (handlers[i].pc # "idle") ~> Answered(i)
    /\ [][\A i \in HandlerIds : Answered(i) => handlers'[i] = handlers[i]]_vars

\* C20 witness: a request that went through the gateway has been answered
\* while another one is still awaiting its post
C20_Witness ==
    \E i, j \in HandlerIds :
        /\ Answered(i)
        /\ handlers[i].reply # None
        /\ handlers[j].pc = "awaiting"

(***************************************************************************)
(* Claims about the extractor and the metadata                             *)
(***************************************************************************)
\* C21: _extract_text returns the primary method's text, without calling
\* the secondary method, exactly when the primary method returns text that
\* is not blank; otherwise it calls the secondary method and returns its
\* text, or raises the exception the secondary method raised
C21_TwoTierExtraction ==
    proc_pc = "extracted" =>
        /\ (extract_result.calls = <<"pdfplumber">>) <=> PrimaryYieldsText(fs)
        /\ PrimaryYieldsText(fs) =>
              /\ extract_result.ok
              /\ extract_result.val = PagesText(fs.primary.pages, max_pages)
        /\ (~PrimaryYieldsText(fs) /\ ~fs.secondary.raises) =>
              /\ extract_result.ok
              /\ extract_result.val = PagesText(fs.secondary.pages, max_pages)
              /\ extract_result.calls = <<"pdfplumber", "PyPDF2">>
        /\ (~PrimaryYieldsText(fs) /\ fs.secondary.raises) =>
              /\ ~extract_result.ok
              /\ extract_result.exc = fs.secondary.exc

\* C21 witness: the primary method returned blank text and the text of the
\* secondary method has been returned
C21_Witness ==
    /\ proc_pc = "extracted"
    /\ ~fs.primary.raises
    /\ ~PrimaryYieldsText(fs)
    /\ SecondaryYieldsText(fs)
    /\ extract_result.ok
    /\ extract_result.val = PagesText(fs.secondary.pages, max_pages)

(***************************************************************************)
(* Claims about the calls a request makes                                  *)
(***************************************************************************)
\* C22: a request posts to the gateway at most once: one post while it
\* awaits the reply and after the reply, none when it failed before; and a
\* request whose one post failed is answered with success=false
C22_NoRetries ==
    \A i \in HandlerIds :
        /\ handlers[i].pc = "awaiting" => Len(handlers[i].posted) = 1
        /\ Done(i) =>
              /\ Len(handlers[i].posted) =
                    (IF handlers[i].reply = None THEN 0 ELSE 1)
              /\ GatewayFailed(handlers[i]) =>
                    /\ handlers[i].response # None
                    /\ handlers[i].response[1].success = FALSE

\* C22 witness: a request whose post timed out has failed after one post
C22_Witness ==
    \E i \in HandlerIds :
        /\ Done(i)
        /\ handlers[i].reply # None
        /\ handlers[i].reply[1].kind = "transport"
        /\ Len(handlers[i].posted) = 1
        /\ handlers[i].response[1].success = FALSE

\* the document a handler works on
DocumentOf(h) == Preflight(h.request, h.file).val.document[1]

\* the payload's input, max_new_tokens and temperature
Posts(payload, input, max_new_tokens, temperature) ==
    /\ payload.input = input
    /\ payload.parameters.max_new_tokens = max_new_tokens
    /\ payload.parameters.temperature = temperature

\* C23: a request that reaches the gateway makes the one call of its task:
\* summarize the summary prompt at temperature 0.3, question_answer the
\* answer prompt with 1000 tokens at 0.5, extract the key-points prompt with
\* 800 tokens at 0.4, analyze the analysis prompt with 1500 tokens at 0.3;
\* and every result of a success has a document_info with the file name and
\* the page count of the document
C23_TaskTable ==
    \A i \in HandlerIds :
        /\ (handlers[i].pc # "idle" /\ handlers[i].posted # <<>>) =>
              LET h == handlers[i]
                  t == DocumentOf(h).text_content
                  payload == h.posted[1]
              IN /\ Len(h.posted) = 1
                 /\ CASE h.request.task = "summarize" ->
                            /\ payload.input =
                                  SummarizeRequest(t, MaxLengthOf(
                                      h.request.parameters)).prompt
                            /\ payload.parameters.temperature = 3
                      [] h.request.task = "question_answer" ->
                            Posts(payload,
                                  AnswerRequest(t, QuestionOf(
                                      h.request.parameters)).prompt,
                                  1000, 5)
                      [] h.request.task = "extract" ->
                            Posts(payload, KeyPointsRequest(t).prompt, 800, 4)
                      [] h.request.task = "analyze" ->
                            Posts(payload, AnalysisPrompt(t), 1500, 3)
        /\ (Done(i) /\ handlers[i].response # None
                /\ handlers[i].response[1].success) =>
              LET result == handlers[i].response[1].result[1]
                  document == DocumentOf(handlers[i])
              IN /\ "document_info" \in DOMAIN result
                 /\ result.document_info.file_name =
                        basename(handlers[i].request.document_path)
                 /\ result.document_info.page_count = document.page_count

\* C23 witness: an extract request has been answered with its key points
C23_Witness ==
    \E i \in HandlerIds :
        /\ Done(i)
        /\ handlers[i].request.task = "extract"
        /\ handlers[i].response[1].success
        /\ handlers[i].posted[1].parameters.max_new_tokens = 800
        /\ "key_points" \in DOMAIN handlers[i].response[1].result[1]

\* s is an initial part of t
IsPrefix(s, t) == Len(s) <= Len(t) /\ s = SubSeq(t, 1, Len(s))

\* the path and the file pass the pre-flight check: the file exists, the
\* name ends in .pdf, the size is within the limit and the file opens
PassesPreflight(h) ==
    /\ h.file.exists
    /\ EndsWithPdf(h.request.document_path)
    /\ h.file.file_size <= max_file_size
    /\ h.file.openable

\* C24: a handler calls the pre-flight check, the pipeline, the dispatcher
\* and the gateway in this order; the pipeline is called only on a path that
\* passed the pre-flight check, and the gateway only after the pipeline
\* returned a success
C24_CallOrder ==
    \A i \in HandlerIds : handlers[i].pc # "idle" =>
        LET h == handlers[i] IN
        /\ IsPrefix(h.calls, <<"validate_file", "process_document",
                               "_perform_task", "post">>)
        /\ Len(h.calls) >= 1
        /\ Len(h.calls) >= 2 => PassesPreflight(h)
        /\ Len(h.calls) >= 3 =>
              /\ Returned(process_document(h.request.document_path, h.file))
              /\ process_document(h.request.document_path,
                                  h.file).result.success
        /\ (h.posted # <<>>) <=> (Len(h.calls) = 4)
        /\ ~PassesPreflight(h) => h.posted = <<>>

\* C24 witness: a request on a path that fails the pre-flight check has
\* been answered, and another one has gone through all four calls
C24_Witness ==
    \E i, j \in HandlerIds :
        /\ Done(i) /\ ~PassesPreflight(handlers[i])
        /\ handlers[i].calls = <<"validate_file">>
        /\ Done(j) /\ Len(handlers[j].calls) = 4
        /\ handlers[j].response # None /\ handlers[j].response[1].success

(***************************************************************************)
(* Claims about concurrent uploads                                         *)
(***************************************************************************)
\* another upload of the same filename has removed the file of their path
RemovedByNamesake(u) ==
    \E v \in UploadIds \ {u} :
        /\ UploadDoneAt(v)
        /\ uploads[v].filename = uploads[u].filename
        /\ uploads[v].removal = "removed"

\* another upload of the same filename has written its content to the path
OverwrittenByNamesake(u) ==
    \E v \in UploadIds \ {u} :
        /\ uploads[v].pc \in {"awaiting", "done"}
        /\ uploads[v].filename = uploads[u].filename
        /\ uploads[u].filename \in DOMAIN temp_dir
        /\ temp_dir[uploads[u].filename] = uploads[v].content

\* the response of upload u says that its file is invalid or unsupported
FileWasGone(u) ==
    /\ UploadDoneAt(u)
    /\ uploads[u].out.ok
    /\ uploads[u].out.val.error =
          Some(<<"Invalid or unsupported file: ">>
                   \o FilePathOf(uploads[u].filename))

\* C25: uploads of one filename work on one path of the temporary
\* directory: while an upload awaits its content the file of its path is the
\* empty file of an open, the content another upload of that filename wrote,
\* or gone because such an upload removed it; and an upload is answered
\* that its own file is invalid only when an upload of the same filename
\* removed the file
C25_SharedTempPath ==
    \A u \in UploadIds :
        /\ uploads[u].pc = "reading" =>
              \/ FileAt(temp_dir, uploads[u].filename) = EmptyFile
              \/ OverwrittenByNamesake(u)
              \/ /\ uploads[u].filename \notin DOMAIN temp_dir
                 /\ RemovedByNamesake(u)
        /\ FileWasGone(u) => RemovedByNamesake(u)

\* C25 witness: an upload of a readable document has failed because another
\* upload of the same filename removed the file before it was written
C25_Witness ==
    \E u \in UploadIds :
        /\ FileWasGone(u)
        /\ uploads[u].content = GoodFile
        /\ uploads[u].task = "summarize"
        /\ uploads[u].parameters = None
        /\ RemovedByNamesake(u)

(***************************************************************************)
(* Claims about concurrent requests                                        *)
(***************************************************************************)
\* what a request, its document and the reply to its own post determine:
\* the response, or the exception that leaves the handler
AnswerOf(request, f, reply) ==
    LET pre == Preflight(request, f)
        t == IF pre.ok /\ reply # None
             THEN _perform_task(request.task, pre.val, request.parameters,
                                reply[1]).outcome
             ELSE IF pre.ok
             THEN GatewayCallOf(request.task, pre.val.document[1],
                                request.parameters)
             ELSE pre
    IN IF t.ok THEN [response |-> Some(SuccessResponse(request, t.val)),
                     escaped |-> None]
       ELSE IF HandlerCatches(t.exc)
       THEN [response |-> Some(FailureResponse(request, t.exc)),
             escaped |-> None]
       ELSE [response |-> None, escaped |-> Some(t.exc)]

\* C26: the response of a request is determined by the request, its
\* document and the reply to its own post, whatever the other handlers have
\* done and whatever the counters hold
C26_RequestsIndependent ==
    \A i \in HandlerIds : Done(i) =>
        LET a == AnswerOf(handlers[i].request, handlers[i].file,
                          handlers[i].reply)
        IN /\ handlers[i].response = a.response
           /\ handlers[i].escaped = a.escaped

\* C26 witness: two requests for the same document and task have been
\* answered; the post of one failed and the other one succeeded
C26_Witness ==
    \E i, j \in HandlerIds :
        /\ Done(i) /\ Done(j)
        /\ handlers[i].request.document_path = handlers[j].request.document_path
        /\ handlers[i].file = handlers[j].file
        /\ handlers[i].request.task = handlers[j].request.task
        /\ handlers[i].reply # None /\ handlers[j].reply # None
        /\ handlers[i].response[1].success
        /\ ~handlers[j].response[1].success
        /\ total_requests = 2

(***************************************************************************)
(* Claims about the counters                                               *)
(***************************************************************************)
\* the requests that have entered the handler and not returned
InFlight == {i \in HandlerIds : handlers[i].pc = "awaiting"}

\* handler i enters _handle_acp_request in this step
Enters(i) == handlers[i].pc = "idle" /\ handlers'[i].pc # "idle"

\* handler i returns from _handle_acp_request in this step
Returns(i) == handlers[i].pc # "done" /\ handlers'[i].pc = "done"

\* C27: successful_requests + failed_requests <= total_requests and the
\* difference is the number of requests in flight; no counter ever
\* decreases; a request adds exactly one to total_requests when it enters
\* the handler and exactly one to exactly one of successful_requests and
\* failed_requests when it returns
C27_CounterAccounting ==
    /\ [](/\ successful_requests + failed_requests <= total_requests
          /\ total_requests - (successful_requests + failed_requests)
                = Cardinality(InFlight))
    /\ [][/\ total_requests' >= total_requests
          /\ successful_requests' >= successful_requests
          /\ failed_requests' >= failed_requests
          /\ total_requests' - total_requests
                = Cardinality({i \in HandlerIds : Enters(i)})
          /\ (successful_requests' + failed_requests')
                - (successful_requests + failed_requests)
                = Cardinality({i \in HandlerIds : Returns(i)})
          /\ \A i \in HandlerIds : Returns(i) =>
                \/ /\ successful_requests' = successful_requests + 1
                   /\ failed_requests' = failed_requests
                \/ /\ failed_requests' = failed_requests + 1
                   /\ successful_requests' = successful_requests
      ]_vars

\* C27 witness: one request has succeeded while another one is in flight
C27_Witness ==
    /\ total_requests = 2
    /\ successful_requests = 1
    /\ failed_requests = 0
    /\ Cardinality(InFlight) = 1

(***************************************************************************)
(* Claims about the task registry                                          *)
(***************************************************************************)
\* the identifiers asked for: those of the requests and one of no request
TaskIdsAsked == {RequestIdOf(i) : i \in HandlerIds} \cup {<<"req_", "none">>}

\* C28: active_tasks is empty in every reachable state, so the status route
\* answers 404 "Task not found" for every identifier, the identifier of a
\* request that has been processed included
C28_NoTaskRegistered ==
    /\ DOMAIN active_tasks = {}
    /\ \A task_id \in TaskIdsAsked :
          get_task_status(task_id)
              = Err(HTTPException(404, <<"Task not found">>))

\* C28 witness: a request has been answered with a success and the status
\* route does not know its identifier
C28_Witness ==
    \E i \in HandlerIds :
        /\ Done(i)
        /\ handlers[i].response[1].success
        /\ ~get_task_status(handlers[i].request.request_id).ok

(***************************************************************************)
(* Claims about metadata failures                                          *)
(***************************************************************************)
\* process_document was called on a file that passes its checks, yields
\* text, and whose metadata reader raises
MetadataRaised ==
    /\ proc_pc = "processed"
    /\ fs.exists /\ fs.file_size <= max_file_size
    /\ PrimaryYieldsText(fs) \/ SecondaryYieldsText(fs)
    /\ fs.metadata.raises

\* C29 as stated: when the text is not empty and reading the metadata
\* raises, process_document returns a success whose document has page_count
\* 0 and an empty metadata mapping
C29_MetadataFailureEmpties ==
    MetadataRaised =>
        /\ Returned(pdf_result)
        /\ pdf_result.result.success
        /\ pdf_result.result.document[1].page_count = 0
        /\ DOMAIN pdf_result.result.document[1].metadata = {}

\* C29 amended: when the text is not empty and reading the metadata raises,
\* process_document returns a success whose document keeps what the reader
\* stored before it raised: page_count 0 and an empty mapping when the
\* pages were not counted, the page count and a mapping of page_count alone
\* when they were
C29_MetadataFailureKeepsPageCount ==
    MetadataRaised =>
        /\ Returned(pdf_result)
        /\ pdf_result.result.success
        /\ pdf_result.result.error = None
        /\ IF "page_count" \in DOMAIN fs.metadata
           THEN /\ pdf_result.result.document[1].page_count
                      = fs.metadata.page_count
                /\ pdf_result.result.document[1].metadata
                      = [k \in {"page_count"} |-> fs.metadata.page_count]
           ELSE /\ pdf_result.result.document[1].page_count = 0
                /\ DOMAIN pdf_result.result.document[1].metadata = {}

\* C29 witness: the reader counted the pages and raised on the document
\* information; the document of the success has the page count
C29_Witness ==
    /\ MetadataRaised
    /\ "page_count" \in DOMAIN fs.metadata
    /\ pdf_result.result.success
    /\ pdf_result.result.document[1].page_count = 2

(***************************************************************************)
(* Claims about the generation parameters                                  *)
(***************************************************************************)
\* the value a request supplies for a field, the default when it is unset
SuppliedOr(field, default) == IF field = None THEN default ELSE field[1]

\* C30: generate_text posts the max_tokens, temperature and top_p the
\* request supplies, the value 0 included, and the configured defaults only
\* for a field the request leaves unset
C30_ParametersForwarded ==
    (gen_pc = "returned" /\ gen_call.op = "generate_text") =>
        /\ gen_out.payload.parameters.max_new_tokens =
              SuppliedOr(gen_call.request.max_tokens, default_max_tokens)
        /\ gen_out.payload.parameters.temperature =
              SuppliedOr(gen_call.request.temperature, default_temperature)
        /\ gen_out.payload.parameters.top_p =
              SuppliedOr(gen_call.request.top_p, default_top_p)

====
